---- MODULE Spec2Model ----
(***************************************************************************)
(* A model of the garden-pets simulation: the per-pet frame callback       *)
(* (GardenPet, src/GardenPets.jsx), the population manager's frame         *)
(* callback (PetManager), the drag handler, and the pets-core library      *)
(* functions (updateBrain, maybeStartChase, ...).                          *)
(*                                                                         *)
(* Fixed point.  Positions and velocities are whole world units, angles    *)
(* are whole multiples of pi/HalfTurn, times are whole seconds: a frame's dt is a whole     *)
(* number of seconds (0 stands for a frame shorter than the resolution).   *)
(* A real-valued `until` is stored as its floor and a real-valued timer as *)
(* its ceiling, which decides `t > until` and `timer <= 0` exactly at      *)
(* whole-second sample times.  Products are truncated toward zero.         *)
(***************************************************************************)
EXTENDS Integers, Sequences, FiniteSets, TLC

\* ------------------------------------------------------------ bounds
NumPets == 3          \* pets in the roster (defaultPets makes three)
MaxDt == 1            \* longest frame of a garden that is watched closely, in seconds
RoomHalf == 9         \* the room spans -RoomHalf..RoomHalf on both axes
CalmSeconds == 10     \* the undisturbed garden: seconds of clock watched,
CalmDt == 5           \*   the length of a long frame (the tab was hidden),
CalmFrames == 61      \*   frames watched
ChaseSeconds == 4     \* the garden with one chase burst
ChaseDt == 4
ChaseFrames == 34
ChaseQuiet == 28      \*   frames before the first chase roll can hit
DragSeconds == 1      \* the garden with one pickup and one roll that hits
DragFrames == 31
DragQuiet == 28
CoreCalls == 2        \* calls of the library's updateBrain in one run
IdleSeconds == 6      \* the garden with one roll that hits
IdleDt == 3
IdleFrames == 5
PlayerSeconds == 2    \* the garden with a moving player
PlayerFrames == 4
FarSeconds == 1       \* the garden with a greet and a player who walks away
FarFrames == 31
FarQuiet == 29
OrderFrames == 3      \* 60 Hz frames watched
AngleSteps == 2       \* calls of dampAngle in one run
PetSeconds == 2       \* the garden with a pointer stroking one pet
PetFrames == 2
PetStrokes == 5       \*   pointer moves in one run
LoveSeconds == 1      \* the garden with a pointer stroking one pet to and fro
LoveFrames == 1
LoveStrokes == 10
DozeSeconds == 1      \* the garden with one chase burst and one roll that hits
DozeFrames == 2
MaxMemories == 2      \* memory ids in use
RegistryCalls == 4    \* calls on the memory registry in one run
StartCalls == 4       \* calls of the library's chase functions in one run
StartDt == 6          \*   the length of a frame that outlasts any episode
GachaPulls == 5       \* summons in one run
MaxPets == 4          \* maxPets, scaled down (12, or 7 on a phone)
RosterCalls == 5      \* calls of addPet and removePet in one run
MaxHandlers == 3      \* callbacks registered with once() in one run
EmitCalls == 3        \* calls of emit() in one run
HoldSeconds == 1      \* the garden with one pickup that may end as a tap
HoldFrames == 31
PartDt == 2           \* a frame that outlasts a greet and is too short for a rest
NapDt == 11           \* the garden with a long walk, a greet and one roll that hits:
NapFrames == 31       \*   the length of a long frame, frames watched,
NapQuiet == 28        \*   frames before the roll can hit
RestCalls == 2        \* calls of the library in a run without rest spots
ShortWindowS == 1     \* the longest span, in seconds, read as a short window
HalfTurn == 12        \* angle units in pi: an angle is a whole multiple of 15 degrees
PerfLead == 23        \* seconds performance.now() is ahead of the render clock

\* ------------------------------------------------------------ program constants
SOCIAL_DISTANCE == 2
SOCIAL_COOLDOWN_S == 10
SOCIAL_CHECK_EVERY_FRAMES == 30
restAfterWalkS == 10
sleepAfterNoInteractS == 22
FollowDist2 == 70
NearbyDist2 == 64
GuardMax == 6
guaranteeRareWithinFirst == 3
pityCounter == 50

Pets == 1..NumPets
NoPet == 0
Modes == {"wandering", "curious", "resting", "sleeping", "following",
          "chasing", "running", "socializing", "held"}

bounds == [minX |-> 0 - RoomHalf, maxX |-> RoomHalf,
           minZ |-> 0 - RoomHalf, maxZ |-> RoomHalf]

\* the rest spots handed to the manager and the pets (five in the garden scene)
rugs == << <<-3, -3>>, <<3, 3>>, <<0, 0>> >>

\* ------------------------------------------------------------ arithmetic
Abs(n) == IF n < 0 THEN 0 - n ELSE n
Min2(a, b) == IF a < b THEN a ELSE b
Max2(a, b) == IF a > b THEN a ELSE b

\* integer division truncating toward zero, as a float product rounds here
TruncDiv(a, b) == IF a >= 0 THEN a \div b ELSE 0 - ((0 - a) \div b)

\* JavaScript's %: the remainder takes the sign of the dividend
JsRem(a, n) == IF a >= 0 THEN a % n ELSE 0 - ((0 - a) % n)

\* floor of the square root, by bisection
RECURSIVE IsqrtBS(_, _, _)
IsqrtBS(n, lo, hi) ==
    IF lo >= hi THEN lo
    ELSE LET mid == (lo + hi + 1) \div 2
         IN  IF mid * mid <= n THEN IsqrtBS(n, mid, hi) ELSE IsqrtBS(n, lo, mid - 1)
Isqrt(n) == IsqrtBS(n, 0, Min2(n, 46340))

clamp_unbounded_above(v, a, b) == Max2(a, v)
clamp(v, a, b) == Max2(a, Min2(b, v))

\* Math.atan2(x, z), to the nearest of the eight compass bearings
atan2(x, z) ==
    IF x = 0 /\ z = 0 THEN 0
    ELSE IF 2 * Abs(x) < Abs(z) THEN (IF z > 0 THEN 0 ELSE HalfTurn)
    ELSE IF 2 * Abs(z) < Abs(x) THEN (IF x > 0 THEN HalfTurn \div 2 ELSE 0 - (HalfTurn \div 2))
    ELSE IF x > 0 THEN (IF z > 0 THEN HalfTurn \div 4 ELSE (3 * HalfTurn) \div 4)
    ELSE (IF z > 0 THEN 0 - (HalfTurn \div 4) ELSE 0 - ((3 * HalfTurn) \div 4))

\* dampAngle(a, b, t) with t given in hundredths
dampAngle(a, b, pct) ==
    LET d == JsRem(b - a + HalfTurn, 2 * HalfTurn) - HalfTurn
    IN  a + TruncDiv(d * pct, 100)

\* v * (pct/100)^k, one factor at a time
RECURSIVE DampPow(_, _, _)
DampPow(v, pct, k) ==
    IF k = 0 \/ v = 0 THEN v ELSE DampPow(TruncDiv(v * pct, 100), pct, k - 1)

\* ------------------------------------------------------------ state
VARIABLES
    time,             \* state.clock.getElapsedTime() of the current frame
    dt,               \* the current frame's delta
    phase,            \* whose frame callback runs next: 0 the manager's, i pet i's
    frameCounter,     \* PetManager's frameCounter, modulo the scan period
    pos, vel, yaw,    \* per pet: the refs of GardenPet
    heldRef, brain, social, petting,
    posMapRef,        \* the manager's pose snapshot
    chaseModeRef,     \* the single chase episode
    pairCooldown,     \* pair -> time after which the pair may greet again
    lastSleepSpotRef, \* cuddle-pile hint: index into rugs, 0 when unset
    camera,           \* camera.position, moved by the player
    left,             \* what the surroundings may still do in this run: seconds of
                      \* clock, frame lengths, frames, frames before the first
                      \* disturbance, chase bursts, pickups, rolls that hit, camera moves
    hist,             \* history: what the last actions did (read by the properties only)
    emitter,          \* a PetEventEmitter: the listeners of one event, and how often
                      \* each callback given to once() has been called
    roster,           \* the pets state of a component: hook is usePetState's and
                      \* PetProvider's, manager is PetManager's
    gacha,            \* a GachaManager
    registry          \* a MemoryRegistry: memories by id, assignments by pet id

\* the refs of the garden scene
scene == <<time, dt, phase, frameCounter, pos, vel, yaw, heldRef, brain, social,
           petting, posMapRef, chaseModeRef, pairCooldown, lastSleepSpotRef, camera>>

\* the objects of the library that live beside the scene
library == <<emitter, roster, gacha, registry>>

vars == <<scene, left, hist, library>>

Pairs == {pr \in Pets \X Pets : pr[1] < pr[2]}
PairKey(a, b) == IF a < b THEN <<a, b>> ELSE <<b, a>>

V2(x, z) == [x |-> x, z |-> z]

\* the roster handed to the scene: saved positions (a pet's position is saved
\* when it is put down), and the yaws defaultPets gives
StartPos == <<V2(0, 0), V2(1, 0), V2(1, 1), V2(-2, 1), V2(2, -1)>>
StartYaw == <<0, HalfTurn, HalfTurn \div 2, 0, HalfTurn>>

createBrainState ==
    [mode |-> "wandering", t |-> 0, walkS |-> 0, restSpot |-> V2(0, 0), lastInteractAt |-> 0]

createSocialState ==
    [active |-> FALSE, until |-> 0, partnerId |-> NoPet, partnerPos |-> V2(0, 0),
     facePartnerYaw |-> 0]

createChaseMode ==
    [active |-> FALSE, until |-> 0, chaserId |-> NoPet, runnerId |-> NoPet,
     runnerPos |-> V2(0, 0), chaserPos |-> V2(0, 0)]

createPetting == [lastX |-> 0, lastDir |-> 0, flips |-> 0, love |-> 0, emitT |-> 0]

\* history: the last callback that ran, what the manager's last frame did, and
\* the times of each pair's last two greets (-1: none); for a call of a
\* library function, the brain before the call and the call's arguments; the
\* refs of every pet as the manager's last frame left them; for a pointer move,
\* the pet's refs before it and the times of the reversals counted toward the
\* pet event in progress (kept until the next reversal after the event)
NoHist == [op |-> "init", pet |-> NoPet, greeted |-> {}, nudged |-> {}, started |-> FALSE,
           lastGreetAt |-> [pr \in Pairs |-> -1], prevGreetAt |-> [pr \in Pairs |-> -1],
           pre |-> createBrainState, args |-> <<>>,
           start |-> <<>>, before |-> <<>>, flipAt |-> <<>>]

\* performance.now() * 0.001 at render time t
PerfNow(t) == t + PerfLead

\* the refs of one pet, as one record
PetOf(i) == [pos |-> pos[i], vel |-> vel[i], yaw |-> yaw[i], held |-> heldRef[i],
             brain |-> brain[i], social |-> social[i], petting |-> petting[i]]

\* ------------------------------------------------------------ random draws
\* A value of Math.random(), in thousandths.
RandSet == {0, 400, 999}

\* lerp(a, b, Math.random()) in thousandths
randRange(aMilli, bMilli, r) == aMilli + ((bMilli - aMilli) * r) \div 1000

\* pick(arr): the index arr[(Math.random() * arr.length) | 0], 1-based
pick(len, r) == ((r * len) \div 1000) + 1

CeilS(milli) == (milli + 999) \div 1000
FloorS(milli) == milli \div 1000

\* ------------------------------------------------------------ GardenPet: useFrame
\* a social expiry that leaves the mode alone
SocialExpiry_keepMode(S, t) ==
    IF S.social.active /\ t > S.social.until
    THEN [S EXCEPT !.social.active = FALSE, !.social.partnerId = NoPet]
    ELSE S

\* Social expiry
SocialExpiry(S, t) ==
    IF S.social.active /\ t > S.social.until
    THEN [S EXCEPT !.social.active = FALSE,
                   !.social.partnerId = NoPet,
                   !.brain.mode = IF ~S.held /\ @ = "socializing" THEN "wandering" ELSE @]
    ELSE S

\* Love decay that a held pet is spared
LoveDecay_unlessHeld(S, dtv, r) ==
    IF S.held THEN S
    ELSE [S EXCEPT !.petting.love = Max2(0, S.petting.love - 55 * dtv)]

\* Love decay (love in hundredths) and the heart-emission timer
LoveDecay(S, dtv, r) ==
    LET love == Max2(0, S.petting.love - 55 * dtv)
        e1   == S.petting.emitT - dtv
    IN  IF love > 20
        THEN [S EXCEPT !.petting.love = love,
                       !.petting.emitT = IF e1 <= 0 THEN CeilS(randRange(140, 220, r)) ELSE e1]
        ELSE [S EXCEPT !.petting.love = love]

\* Chase manager influence
ChaseInfluence(S, id, chase, t) ==
    IF ~S.held /\ chase.active
    THEN IF chase.chaserId = id
         THEN [S EXCEPT !.brain.mode = "chasing",
                        !.brain.t = chase.until - t,
                        !.brain.restSpot = chase.runnerPos]
         ELSE IF chase.runnerId = id
         THEN [S EXCEPT !.brain.mode = "running", !.brain.t = chase.until - t]
         ELSE S
    ELSE S

Dist2(a, b) == (a.x - b.x) * (a.x - b.x) + (a.z - b.z) * (a.z - b.z)

\* Social stops movement
SocialMode(S) ==
    IF S.social.active THEN [S EXCEPT !.brain.mode = "socializing"] ELSE S

\* Sleep
IdleSleep(S, t, dtv, shouldFollow, in) ==
    LET sinceInteract == PerfNow(t) - S.brain.lastInteractAt
    IN  IF S.brain.mode # "sleeping" /\ ~S.social.active /\ ~shouldFollow
           /\ sinceInteract > sleepAfterNoInteractS /\ in.sleepR < 35 * dtv
        THEN [S EXCEPT !.brain.mode = "sleeping",
                       !.brain.t = CeilS(randRange(3000, 6000, in.durR)),
                       !.brain.restSpot = V2(rugs[pick(Len(rugs), in.pickR)][1],
                                             rugs[pick(Len(rugs), in.pickR)][2])]
        ELSE S

\* rest rolls that do not ask for the wandering mode
WanderRolls_anyMode(S, dtv, shouldFollow, in) ==
    LET S1 == [S EXCEPT !.brain.t = @ - dtv]
        walkS == S1.brain.walkS + dtv
    IN  IF ~shouldFollow /\ walkS > restAfterWalkS /\ in.restR < 100 * dtv
        THEN [S1 EXCEPT !.brain.mode = "resting",
                        !.brain.t = CeilS(randRange(2600, 4800, in.durR)),
                        !.brain.walkS = 0,
                        !.brain.restSpot = V2(rugs[pick(Len(rugs), in.pickR)][1],
                                              rugs[pick(Len(rugs), in.pickR)][2])]
        ELSE IF S1.brain.mode = "wandering" THEN [S1 EXCEPT !.brain.walkS = walkS]
        ELSE S1

\* Timers, and Wander -> rest/curious
WanderRolls(S, dtv, shouldFollow, in) ==
    LET S1 == [S EXCEPT !.brain.t = @ - dtv]
    IN  IF S1.brain.mode = "wandering"
        THEN LET walkS == S1.brain.walkS + dtv
             IN  IF ~shouldFollow /\ walkS > restAfterWalkS /\ in.restR < 100 * dtv
                 THEN [S1 EXCEPT !.brain.mode = "resting",
                                 !.brain.t = CeilS(randRange(2600, 4800, in.durR)),
                                 !.brain.walkS = 0,
                                 !.brain.restSpot = V2(rugs[pick(Len(rugs), in.pickR)][1],
                                                       rugs[pick(Len(rugs), in.pickR)][2])]
                 ELSE IF ~shouldFollow /\ in.curR < 110 * dtv
                 THEN [S1 EXCEPT !.brain.mode = "curious",
                                 !.brain.t = CeilS(randRange(1200, 2200, in.durR)),
                                 !.brain.walkS = walkS]
                 ELSE [S1 EXCEPT !.brain.walkS = walkS]
        ELSE S1

\* If camera far: companion follow
FollowRule(S, shouldFollow) ==
    IF shouldFollow /\ S.brain.mode # "sleeping"
    THEN [S EXCEPT !.brain.mode = "following"]
    ELSE IF S.brain.mode = "following" /\ ~shouldFollow
    THEN [S EXCEPT !.brain.mode = IF S.social.active THEN "socializing" ELSE "wandering",
                   !.brain.walkS = 0]
    ELSE S

\* the brain part of the frame, after the held check (GardenPet), given shouldFollow
GardenBrainWith(S, t, dtv, shouldFollow, in) ==
    FollowRule(WanderRolls(IdleSleep(SocialMode(S), t, dtv, shouldFollow, in),
                           dtv, shouldFollow, in),
               shouldFollow)

GardenBrain(S, t, dtv, in) ==
    GardenBrainWith(S, t, dtv, Dist2(in.camera, S.pos) > FollowDist2, in)

\* ------------------------------------------------------------ GardenPet: steering
\* length of the vector (dx, dz), in thousandths
LenMilli(dx, dz) == Isqrt((dx * dx + dz * dz) * 1000000)

\* component c of the unit vector along (dx, dz), times gainMilli/1000 * dt
Steer(c, dx, dz, gainMilli, dtv) ==
    LET dM == LenMilli(dx, dz)
    IN  IF dM <= 1 THEN TruncDiv(c * gainMilli * dtv, 1000)
        ELSE TruncDiv(c * gainMilli * dtv, dM)

\* Separation from other pets (thousandths): reads the manager's snapshot only
RECURSIVE SepFrom(_, _, _, _)
SepFrom(ids, id, p, map) ==
    IF ids = {} THEN V2(0, 0)
    ELSE LET o    == CHOOSE q \in ids : TRUE
             rest == SepFrom(ids \ {o}, id, p, map)
             ox   == p.x - map[o].x
             oz   == p.z - map[o].z
             d2   == ox * ox + oz * oz
             dM   == LenMilli(ox, oz)
             \* (1 - d / 2.3) * 0.018, in millionths
             push == ((2300 - dM) * 18000) \div 2300
         IN  IF o # id /\ dM < 2300 /\ d2 > 0
             THEN V2(rest.x + TruncDiv(ox * push, dM), rest.z + TruncDiv(oz * push, dM))
             ELSE rest

\* Player personal space (thousandths)
PlayerSep(p, cam) ==
    LET ox == p.x - cam.x
        oz == p.z - cam.z
        dM == LenMilli(ox, oz)
    IN  IF dM < 1600 /\ dM > 0
        THEN V2(TruncDiv(ox * 22000, dM), TruncDiv(oz * 22000, dM))
        ELSE V2(0, 0)

\* wall steering, thousandths: active within margin 1.25 of a bound
WallSteer(c, lo, hi) ==
    (IF c * 1000 > hi * 1000 - 1250 THEN 0 - (((c * 1000 - (hi * 1000 - 1250)) * 1000) \div 1250) ELSE 0)
    + (IF c * 1000 < lo * 1000 + 1250 THEN (((lo * 1000 + 1250) - c * 1000) * 1000) \div 1250 ELSE 0)

\* Wandering with noise + wall steering: the normalised steering vector, thousandths
WanderDir(S, id, map, in) ==
    LET lM  == LenMilli(in.noise.x, in.noise.z)
        n   == IF lM > 1 THEN V2((in.noise.x * 1000000) \div lM, (in.noise.z * 1000000) \div lM)
               ELSE V2(in.noise.x * 1000, in.noise.z * 1000)
        sp  == SepFrom(DOMAIN map, id, S.pos, map)
        pl  == PlayerSep(S.pos, in.camera)
        tx  == n.x + TruncDiv(WallSteer(S.pos.x, bounds.minX, bounds.maxX) * 1250, 1000)
                   + sp.x + pl.x
        tz  == n.z + TruncDiv(WallSteer(S.pos.z, bounds.minZ, bounds.maxZ) * 1250, 1000)
                   + sp.z + pl.z
        l2M == Isqrt(tx * tx + tz * tz)
    IN  IF l2M > 1 THEN V2(TruncDiv(tx * 1000, l2M), TruncDiv(tz * 1000, l2M)) ELSE V2(tx, tz)

\* AI: the velocity, yaw and mode after the per-mode branch
GardenMove(S, id, dtv, chase, map, in) ==
    LET k    == 60 * dtv
        mode == S.brain.mode
        dxp  == in.camera.x - S.pos.x
        dzp  == in.camera.z - S.pos.z
        seek(tx, tz, gainMilli, pct) ==
            LET v == V2(DampPow(S.vel.x + Steer(tx, tx, tz, gainMilli, dtv), 86, k),
                        DampPow(S.vel.z + Steer(tz, tx, tz, gainMilli, dtv), 86, k))
            IN  [S EXCEPT !.vel = v, !.yaw = dampAngle(@, atan2(v.x, v.z), pct)]
    IN  IF mode = "socializing"
        THEN [S EXCEPT !.vel = V2(DampPow(S.vel.x, 72, k), DampPow(S.vel.z, 72, k)),
                       !.yaw = dampAngle(@, S.social.facePartnerYaw, 14)]
        ELSE IF mode = "curious"
        THEN [S EXCEPT !.vel = V2(DampPow(S.vel.x, 70, k), DampPow(S.vel.z, 70, k)),
                       !.yaw = dampAngle(@, atan2(dxp, dzp), 12),
                       !.brain.mode = IF S.brain.t <= 0 THEN "wandering" ELSE @]
        ELSE IF mode \in {"resting", "sleeping"}
        THEN LET rx == S.brain.restSpot.x - S.pos.x
                 rz == S.brain.restSpot.z - S.pos.z
             IN  IF LenMilli(rx, rz) > 200
                 THEN LET v == V2(S.vel.x + Steer(rx, rx, rz, 2200, dtv),
                                  S.vel.z + Steer(rz, rx, rz, 2200, dtv))
                      IN  [S EXCEPT !.vel = v, !.yaw = dampAngle(@, atan2(v.x, v.z), 10)]
                 ELSE [S EXCEPT !.vel = V2(DampPow(S.vel.x, 70, k), DampPow(S.vel.z, 70, k)),
                                !.brain.mode = IF S.brain.t <= 0 THEN "wandering" ELSE @]
        ELSE IF mode = "following"
        THEN seek(dxp, dzp, 4950, 12)
        ELSE IF mode = "chasing"
        THEN seek(S.brain.restSpot.x - S.pos.x, S.brain.restSpot.z - S.pos.z, 6150, 13)
        ELSE IF mode = "running"
        THEN seek(S.pos.x - chase.chaserPos.x, S.pos.z - chase.chaserPos.z, 6300, 13)
        ELSE LET w == WanderDir(S, id, map, in)
                 v == V2(DampPow(S.vel.x + TruncDiv(w.x * 3120 * dtv, 1000000), 88, k),
                         DampPow(S.vel.z + TruncDiv(w.z * 3120 * dtv, 1000000), 88, k))
             IN  [S EXCEPT !.vel = v, !.yaw = dampAngle(@, atan2(v.x, v.z), 9)]

\* Integrate, then the hard clamp
Integrate(S, dtv) ==
    [S EXCEPT !.pos = V2(clamp(S.pos.x + S.vel.x * dtv * 60, bounds.minX, bounds.maxX),
                         clamp(S.pos.z + S.vel.z * dtv * 60, bounds.minZ, bounds.maxZ))]

\* the whole frame callback of one pet
GardenPetFrame(S, id, t, dtv, chase, map, in) ==
    LET S1 == ChaseInfluence(LoveDecay(SocialExpiry(S, t), dtv, in.durR), id, chase, t)
    IN  IF S1.held THEN S1
        ELSE Integrate(GardenMove(GardenBrain(S1, t, dtv, in), id, dtv, chase, map, in), dtv)

\* ------------------------------------------------------------ PetManager: useFrame
\* Snapshot poses
Snapshot ==
    [i \in Pets |-> [x |-> pos[i].x, z |-> pos[i].z, yaw |-> yaw[i], mode |-> brain[i].mode]]

\* while (b.id === a.id && guard++ < 6) b = pick(arr)
RECURSIVE RetryLoop(_, _, _, _, _)
RetryLoop(a, b, guard, draws, i) ==
    IF b = a /\ guard < GuardMax
    THEN RetryLoop(a, pick(NumPets, draws[i + 1]), guard + 1, draws, i + 1)
    ELSE b

\* the runner the retry loop ends with, for chaser a
DrawRunner(a, draws) == RetryLoop(a, pick(NumPets, draws[1]), 0, draws, 1)

\* Start a chase burst: the episode is activated with whatever the loop ended with
StartChase(chase, a, b, t, durR) ==
    [chase EXCEPT !.active = TRUE, !.chaserId = a, !.runnerId = b,
                  !.until = t + FloorS(randRange(3800, 5200, durR))]

\* a chase step that never clears the episode
ChaseStep_noexpiry(chase, map, t, in) ==
    IF chase.active THEN chase
    ELSE IF NumPets >= 2 /\ in.chaseR * 60 < 40
         THEN StartChase(chase, pick(NumPets, in.aR), DrawRunner(pick(NumPets, in.aR), in.bDraws),
                         t, in.durR)
         ELSE chase

\* Update chase positions / start a chase burst
ChaseStep(chase, map, t, in) ==
    IF chase.active
    THEN LET c1 == [chase EXCEPT
                      !.chaserPos = IF chase.chaserId \in DOMAIN map
                                    THEN V2(map[chase.chaserId].x, map[chase.chaserId].z) ELSE @,
                      !.runnerPos = IF chase.runnerId \in DOMAIN map
                                    THEN V2(map[chase.runnerId].x, map[chase.runnerId].z) ELSE @]
         IN  IF t > c1.until
             THEN [c1 EXCEPT !.active = FALSE, !.chaserId = NoPet, !.runnerId = NoPet]
             ELSE c1
    ELSE IF NumPets >= 2 /\ in.chaseR * 60 < 40
         THEN StartChase(chase, pick(NumPets, in.aR), DrawRunner(pick(NumPets, in.aR), in.bDraws),
                         t, in.durR)
         ELSE chase

\* the pairs in the order of the scan's two loops
RECURSIVE PairsFrom(_, _)
PairsFrom(i, j) ==
    IF i >= NumPets THEN <<>>
    ELSE IF j > NumPets THEN PairsFrom(i + 1, i + 2)
    ELSE << <<i, j>> >> \o PairsFrom(i, j + 1)
PairSeq == PairsFrom(1, 2)

\* setSocial, as the pet's API applies it
setSocial(so, p, active, until, partnerId, partnerPos) ==
    [so EXCEPT !.active = active, !.until = until, !.partnerId = partnerId,
               !.partnerPos = partnerPos,
               !.facePartnerYaw = atan2(partnerPos.x - p.x, partnerPos.z - p.z)]

\* nudgeToSleepSpot, as the pet's API applies it
nudgeToSleepSpot(B, spot, r) ==
    [B EXCEPT !.mode = "sleeping", !.t = CeilS(randRange(3000, 6000, r)),
              !.restSpot = V2(rugs[spot][1], rugs[spot][2])]

\* Ignore if chasing
ChaseInvolved_never(chase, a, b) == FALSE
ChaseInvolved(chase, a, b) ==
    chase.active /\ (a = chase.chaserId \/ a = chase.runnerId
                     \/ b = chase.chaserId \/ b = chase.runnerId)

\* if (t < until) continue, with until the pair's cooldown entry
OnCooldown_never(cooldown, a, b, t) == FALSE
OnCooldown(cooldown, a, b, t) == t < cooldown[PairKey(a, b)]

\* one pair of the scan; W carries the state the scan writes
GreetPair(W, a, b, chase, map, t, in) ==
    IF ChaseInvolved(chase, a, b) THEN W
    ELSE IF OnCooldown(W.cooldown, a, b, t) THEN W
    ELSE IF Dist2(map[a], map[b]) < SOCIAL_DISTANCE * SOCIAL_DISTANCE
    THEN LET untilT == t + FloorS(1050 + (in.durR * 450) \div 1000)
             cuddle == (map[a].mode = "sleeping" \/ map[b].mode = "sleeping") /\ in.cuddleR < 350
             spot   == IF W.lastSpot # 0 THEN W.lastSpot ELSE pick(Len(rugs), in.pickR)
             nudgeB == cuddle /\ map[a].mode = "sleeping" /\ map[b].mode # "sleeping"
             nudgeA == cuddle /\ map[b].mode = "sleeping" /\ map[a].mode # "sleeping"
         IN  [cooldown |-> [W.cooldown EXCEPT ![PairKey(a, b)] = t + SOCIAL_COOLDOWN_S],
              social   |-> [W.social EXCEPT
                              ![a] = setSocial(@, pos[a], TRUE, untilT, b, V2(map[b].x, map[b].z)),
                              ![b] = setSocial(@, pos[b], TRUE, untilT, a, V2(map[a].x, map[a].z))],
              brain    |-> [W.brain EXCEPT
                              ![a] = IF nudgeA THEN nudgeToSleepSpot(@, spot, in.durR) ELSE @,
                              ![b] = IF nudgeB THEN nudgeToSleepSpot(@, spot, in.durR) ELSE @],
              lastSpot |-> IF cuddle THEN spot ELSE W.lastSpot,
              greeted  |-> W.greeted \cup {PairKey(a, b)},
              nudged   |-> W.nudged \cup (IF nudgeA THEN {a} ELSE {}) \cup (IF nudgeB THEN {b} ELSE {})]
    ELSE W

\* Social proximity checks: the two loops
RECURSIVE ScanFrom(_, _, _, _, _, _)
ScanFrom(W, k, chase, map, t, in) ==
    IF k > Len(PairSeq) THEN W
    ELSE ScanFrom(GreetPair(W, PairSeq[k][1], PairSeq[k][2], chase, map, t, in),
                  k + 1, chase, map, t, in)

GreetScan(W, fc, chase, map, t, in) ==
    IF fc % SOCIAL_CHECK_EVERY_FRAMES # 0 THEN W
    ELSE IF NumPets < 2 THEN W
    ELSE ScanFrom(W, 1, chase, map, t, in)

\* ------------------------------------------------------------ GardenPet: useDrag
\* the drag callback; ev.hit is where the pointer ray meets the lift plane
onDrag(S, ev, now) ==
    IF ev.tap THEN [S EXCEPT !.brain.lastInteractAt = now]
    ELSE LET S1 == IF ev.first
                   THEN [S EXCEPT !.held = TRUE, !.brain.mode = "held",
                                  !.brain.lastInteractAt = now]
                   ELSE S
             S2 == IF ev.active
                   THEN [S1 EXCEPT !.pos = V2(clamp(ev.hit.x, bounds.minX, bounds.maxX),
                                              clamp(ev.hit.z, bounds.minZ, bounds.maxZ)),
                                   !.vel = V2(0, 0)]
                   ELSE S1
         IN  IF ev.last \/ ev.canceled
             THEN [S2 EXCEPT !.held = FALSE,
                             !.brain.mode = IF S2.social.active THEN "socializing" ELSE "wandering"]
             ELSE S2

\* ------------------------------------------------------------ GardenPet: onPetMove
\* Petting detection; x is e.point.x in thousandths, love is in hundredths
onPetMove(S, x, now) ==
    IF S.held THEN S
    ELSE LET dx    == x - S.petting.lastX
             dir   == IF dx > 3 THEN 1 ELSE IF dx < -3 THEN -1 ELSE 0
             flips == IF dir # 0 /\ S.petting.lastDir # 0 /\ dir # S.petting.lastDir
                      THEN S.petting.flips + 1 ELSE S.petting.flips
             S1    == [S EXCEPT !.petting.lastX = x,
                                !.petting.lastDir = IF dir # 0 THEN dir ELSE @,
                                !.petting.flips = flips]
         IN  IF flips >= 3
             THEN [S1 EXCEPT !.petting.flips = 0,
                             !.petting.love = clamp(@ + 22, 0, 100),
                             !.brain.lastInteractAt = now]
             ELSE S1

\* ------------------------------------------------------------ inputs
PointerSet == {-100, 100, 101}
StrokeSet == {-100, 100}
CameraSet == {V2(0, 0), V2(8, 2), V2(9, 3)}
HitSet == {V2(0, 1), V2(RoomHalf + 3, 0 - RoomHalf - 3)}
NoiseSet == {V2(1, 0), V2(-1, 1)}

\* the draws of the runner: j re-draws of the chaser itself, then draw r
RunnerDraws(aR) ==
    {[i \in 1..(GuardMax + 1) |-> IF i <= j THEN aR ELSE r] : j \in {0, 2}, r \in RandSet}

\* Math.random() results consumed by one PetManager frame; a draw that no
\* branch reads is left at its first value, and the pairs of one scan draw alike
ManagerInputs ==
    LET quiet == [chaseR |-> 999, aR |-> 0, bDraws |-> [i \in 1..(GuardMax + 1) |-> 0],
                  durR |-> 0, cuddleR |-> 999, pickR |-> 0]
        starts == IF left.quiet = 0 /\ left.chases > 0 /\ ~chaseModeRef.active
                  THEN {[quiet EXCEPT !.chaseR = 0, !.aR = a, !.bDraws = b, !.durR = du]
                          : a \in RandSet, b \in UNION {RunnerDraws(a2) : a2 \in RandSet},
                            du \in {0, 999}}
                  ELSE {}
        scans  == IF (frameCounter + 1) % SOCIAL_CHECK_EVERY_FRAMES = 0
                  THEN {[quiet EXCEPT !.cuddleR = 0, !.pickR = p] : p \in {0, 999}}
                  ELSE {}
    IN  {quiet} \cup starts \cup scans

\* Math.random() results and the noise sample consumed by one GardenPet frame
PetInputs ==
    LET miss == [camera |-> camera, sleepR |-> 999, restR |-> 999, curR |-> 999,
                 durR |-> 0, pickR |-> 0, noise |-> V2(1, 0), hit |-> FALSE]
        hits == IF left.quiet = 0 /\ dt > 0 /\ left.rolls > 0
                THEN {[miss EXCEPT !.sleepR = 0, !.durR = du, !.pickR = p, !.hit = TRUE]
                        : du \in {0, 999}, p \in {0, 999}}
                     \cup {[miss EXCEPT !.restR = 0, !.durR = du, !.pickR = p, !.hit = TRUE]
                        : du \in {0, 999}, p \in {0, 999}}
                     \cup {[miss EXCEPT !.curR = 0, !.durR = du, !.hit = TRUE] : du \in {0, 999}}
                ELSE {}
    IN  {[m EXCEPT !.noise = n] : m \in {miss} \cup hits, n \in NoiseSet}

DragEvents ==
    {[tap |-> FALSE, first |-> TRUE, active |-> TRUE, last |-> FALSE, canceled |-> FALSE, hit |-> h]
        : h \in HitSet}
    \cup {[tap |-> FALSE, first |-> FALSE, active |-> TRUE, last |-> FALSE, canceled |-> FALSE, hit |-> h]
        : h \in HitSet}
    \cup {[tap |-> FALSE, first |-> FALSE, active |-> FALSE, last |-> l, canceled |-> ~l, hit |-> V2(0, 0)]
        : l \in BOOLEAN}

\* the last event of a gesture that never left the tap threshold
TapRelease ==
    [tap |-> TRUE, first |-> FALSE, active |-> FALSE, last |-> TRUE, canceled |-> FALSE,
     hit |-> V2(0, 0)]

\* the events the gesture hook delivers: those of a drag and, in a run whose
\* pointer may also be lifted where it went down, the release of a tap
GestureEvents == IF "taps" \in DOMAIN left THEN DragEvents \cup {TapRelease} ELSE DragEvents

\* ------------------------------------------------------------ PetEventEmitter
\* how a callback given to once() behaves: it returns, it throws, or it emits
\* the same event again (the first time it is called) and then returns
Behaviours == {"returns", "throws", "emits"}

\* constructor: no listeners. wrappers[w] is the behaviour of the callback the
\* w-th wrapper closes over, live the wrappers in the event's Set, calls[w] the
\* number of calls of that callback
NewEmitter == [wrappers |-> <<>>, live |-> {}, calls |-> <<>>]

\* once(event, callback): on(event, wrapper) with a fresh wrapper
once(E, behaviour) ==
    [wrappers |-> Append(E.wrappers, behaviour),
     live     |-> E.live \cup {Len(E.wrappers) + 1},
     calls    |-> Append(E.calls, 0)]

\* off(event, wrapper)
off(E, w) == [E EXCEPT !.live = @ \ {w}]

\* emit(event): the for-of loop over the Set from its k-th entry on (a Set is
\* walked in insertion order, and an entry deleted before the loop reaches it is
\* skipped); each handler call is the wrapper: callback(data), then off; a throw
\* leaves the wrapper before off and is caught by emit
RECURSIVE emitFrom(_, _)
emitFrom(E, k) ==
    IF k > Len(E.wrappers) THEN E
    ELSE IF k \notin E.live THEN emitFrom(E, k + 1)
    ELSE LET called == [E EXCEPT !.calls[k] = @ + 1]
             after  == IF E.wrappers[k] = "returns" THEN off(called, k)
                       ELSE IF E.wrappers[k] = "throws" THEN called
                       ELSE IF E.calls[k] = 0 THEN off(emitFrom(called, 1), k)
                       ELSE off(called, k)
         IN  emitFrom(after, k + 1)

emit(E) == emitFrom(E, 1)

\* a caller registers a callback with once()
EmitterOnce ==
    /\ Len(emitter.wrappers) < MaxHandlers
    /\ \E b \in Behaviours : emitter' = once(emitter, b)
    /\ hist' = [hist EXCEPT !.op = "once", !.pet = NoPet]
    /\ UNCHANGED <<scene, left, roster, gacha, registry>>

\* a caller emits the event
EmitterEmit ==
    /\ left.frames > 0
    /\ emitter' = emit(emitter)
    /\ left' = [left EXCEPT !.frames = @ - 1]
    /\ hist' = [hist EXCEPT !.op = "emit", !.pet = NoPet]
    /\ UNCHANGED <<scene, roster, gacha, registry>>

\* ------------------------------------------------------------ the roster (React state)
\* useState(pets) with its petsRef: pets is the committed state, ref is
\* petsRef.current, queue the updaters passed to setPets and not yet applied,
\* made the number of pets created so far (a new pet gets a fresh id)
NewRoster(initial) ==
    [pets |-> initial, ref |-> initial, queue |-> <<>>, made |-> NumPets]

SelectSeq2(q, id) == SelectSeq(q, LAMBDA x : x # id)

\* one updater applied to the state it is handed
ApplyUpdater(prev, u) ==
    IF u.op = "append" THEN Append(prev, u.id)
    ELSE IF u.op = "appendIfRoom"
    THEN IF Len(prev) >= MaxPets THEN prev ELSE Append(prev, u.id)
    ELSE SelectSeq2(prev, u.id)

RECURSIVE ApplyQueue(_, _)
ApplyQueue(prev, q) ==
    IF q = <<>> THEN prev ELSE ApplyQueue(ApplyUpdater(prev, Head(q)), Tail(q))

\* a render: React applies the queued updaters in order, then the effect copies
\* the new state into petsRef.current
Rendered(R) ==
    LET next == ApplyQueue(R.pets, R.queue)
    IN  [R EXCEPT !.pets = next, !.ref = next, !.queue = <<>>]

\* usePetState's and PetProvider's addPet: the guard reads petsRef.current
HookAddPet(R) ==
    IF Len(R.ref) >= MaxPets THEN R
    ELSE [R EXCEPT !.queue = Append(@, [op |-> "append", id |-> R.made + 1]),
                   !.made = @ + 1]

\* usePetState's and PetProvider's removePet
HookRemovePet(R, id) == [R EXCEPT !.queue = Append(@, [op |-> "filter", id |-> id])]

\* PetManager's addPet: the guard is inside the updater
ManagerAddPet(R) ==
    [R EXCEPT !.queue = Append(@, [op |-> "appendIfRoom", id |-> R.made + 1]),
              !.made = @ + 1]

\* a caller adds a pet through the hook; the call returns the pet or null (NoPet)
RosterHookAdd ==
    /\ left.frames > 0
    /\ roster' = [roster EXCEPT !.hook = HookAddPet(@)]
    /\ left' = [left EXCEPT !.frames = @ - 1]
    /\ hist' = [hist EXCEPT !.op = "addPet", !.pet = NoPet,
                            !.args = [returned |-> IF Len(roster.hook.ref) >= MaxPets
                                                   THEN NoPet ELSE roster.hook.made + 1,
                                      held |-> Len(ApplyQueue(roster.hook.pets,
                                                              roster.hook.queue))]]
    /\ UNCHANGED <<scene, emitter, gacha, registry>>

\* a caller removes one of the pets on screen through the hook
RosterHookRemove ==
    /\ left.frames > 0
    /\ \E k \in 1..Len(roster.hook.pets) :
          roster' = [roster EXCEPT !.hook = HookRemovePet(@, roster.hook.pets[k])]
    /\ left' = [left EXCEPT !.frames = @ - 1]
    /\ hist' = [hist EXCEPT !.op = "removePet", !.pet = NoPet]
    /\ UNCHANGED <<scene, emitter, gacha, registry>>

\* the spawn button of the garden
RosterManagerAdd ==
    /\ left.frames > 0
    /\ roster' = [roster EXCEPT !.manager = ManagerAddPet(@)]
    /\ left' = [left EXCEPT !.frames = @ - 1]
    /\ hist' = [hist EXCEPT !.op = "spawn", !.pet = NoPet]
    /\ UNCHANGED <<scene, emitter, gacha, registry>>

\* React renders a component whose state has updates pending
RosterRender ==
    /\ \E c \in {"hook", "manager"} :
          /\ roster[c].queue # <<>>
          /\ roster' = [roster EXCEPT ![c] = Rendered(@)]
    /\ hist' = [hist EXCEPT !.op = "render", !.pet = NoPet]
    /\ UNCHANGED <<scene, emitter, left, gacha, registry>>

\* ------------------------------------------------------------ GachaManager
\* RARITY_TIERS: the tiers in the order of the object's keys, their weights and
\* their species
Rarities == <<"common", "rare", "legendary">>
TierWeight == [common |-> 70, rare |-> 25, legendary |-> 5]
TierSpecies == [common |-> <<"cat", "dog", "bunny">>, rare |-> <<"tiger", "wolf">>,
                legendary |-> <<"dragon">>]

\* rollRarity() without a luck boost: the first tier whose cumulative weight is
\* above Math.random() * total (r in thousandths)
RECURSIVE RollFrom(_, _, _)
RollFrom(k, cumulative, roll) ==
    IF k > Len(Rarities) THEN "common"
    ELSE IF roll < (cumulative + TierWeight[Rarities[k]]) * 1000 THEN Rarities[k]
    ELSE RollFrom(k + 1, cumulative + TierWeight[Rarities[k]], roll)

rollRarity(r) ==
    RollFrom(1, 0, r * (TierWeight.common + TierWeight.rare + TierWeight.legendary))

\* rollSpecies(rarity)
rollSpecies(rarity, r) == TierSpecies[rarity][pick(Len(TierSpecies[rarity]), r)]

\* a guarantee pull that is rolled like any other
GuaranteePull_rolled(r) == rollRarity(r)
\* Force at least rare on the guarantee pull
GuaranteePull(r) == IF r < 200 THEN "legendary" ELSE "rare"

\* constructor, with nothing saved in localStorage; reset() gives the same
NewGacha == [pullCount |-> 0, pullHistory |-> <<>>, pityCounter |-> 0,
             hasReceivedFirstRare |-> FALSE]

\* pull(); r is the draw of the rarity, rs the draw of the species. A pull's
\* record is kept without its timestamp
pull(M, r, rs) ==
    LET pullCount == M.pullCount + 1
        pity0     == M.pityCounter + 1
        isPity    == pity0 >= pityCounter
        inFirst   == ~isPity /\ ~M.hasReceivedFirstRare /\ pullCount <= guaranteeRareWithinFirst
        isGuaranteed == inFirst /\ pullCount = guaranteeRareWithinFirst
        rarity    == IF isPity THEN "legendary"
                     ELSE IF isGuaranteed THEN GuaranteePull(r)
                     ELSE rollRarity(r)
    IN  [pullCount |-> pullCount,
         pityCounter |-> IF isPity \/ rarity = "legendary" THEN 0 ELSE pity0,
         hasReceivedFirstRare |-> M.hasReceivedFirstRare \/ rarity # "common",
         pullHistory |-> Append(M.pullHistory,
                                [speciesKey |-> rollSpecies(rarity, rs), rarity |-> rarity,
                                 isGuaranteed |-> isGuaranteed, isPity |-> isPity])]

\* the draws that fall on either side of each tier's threshold
RollSet == {0, 199, 200, 699, 700, 949, 950, 999}

\* a summon
GachaPull ==
    /\ left.frames > 0
    /\ \E r \in RollSet, rs \in {0, 999} : gacha' = pull(gacha, r, rs)
    /\ left' = [left EXCEPT !.frames = @ - 1]
    /\ hist' = [hist EXCEPT !.op = "pull", !.pet = NoPet]
    /\ UNCHANGED <<scene, emitter, roster, registry>>

\* reset()
GachaReset ==
    /\ gacha # NewGacha
    /\ gacha' = NewGacha
    /\ hist' = [hist EXCEPT !.op = "reset", !.pet = NoPet]
    /\ UNCHANGED <<scene, emitter, roster, left, registry>>

\* ------------------------------------------------------------ MemoryRegistry
MemoryIds == 1..MaxMemories

\* a Map without key k
Without(f, k) == [x \in DOMAIN f \ {k} |-> f[x]]
\* map.set(k, v)
With(f, k, v) == [x \in DOMAIN f \cup {k} |-> IF x = k THEN v ELSE f[x]]

\* constructor: two empty Maps. A memory is kept as its guardianPetId (NoPet
\* for null), an assignment as its memoryId and bondLevel
NewRegistry == [memories |-> <<>>, assignments |-> <<>>]

\* addMemory(memory): memories.set(memory.id, a copy of memory)
addMemory(R, id, guardianPetId) == [R EXCEPT !.memories = With(@, id, guardianPetId)]

\* createMemory(id, title, x, y, z)
createMemory(R, id) == addMemory(R, id, NoPet)

\* unassignGuardian(petId)
unassignGuardian(R, petId) ==
    IF petId \in DOMAIN R.assignments
    THEN LET m == R.assignments[petId].memoryId
             mem == IF m \in DOMAIN R.memories /\ R.memories[m] = petId
                    THEN With(R.memories, m, NoPet)
                    ELSE R.memories
         IN  [memories |-> mem, assignments |-> Without(R.assignments, petId)]
    ELSE R

\* removeMemory(id)
removeMemory(R, id) ==
    LET R1 == IF id \in DOMAIN R.memories /\ R.memories[id] # NoPet
              THEN unassignGuardian(R, R.memories[id])
              ELSE R
    IN  [R1 EXCEPT !.memories = Without(@, id)]

\* assignGuardian(petId, memoryId): the registry after the call
assignGuardian(R, petId, memoryId) ==
    IF memoryId \notin DOMAIN R.memories THEN R
    ELSE LET R1  == unassignGuardian(R, petId)
             old == R1.memories[memoryId]
             R2  == IF old # NoPet /\ old \in DOMAIN R1.assignments
                    THEN [R1 EXCEPT !.assignments = Without(@, old)]
                    ELSE R1
         IN  [memories    |-> With(R2.memories, memoryId, petId),
              assignments |-> With(R2.assignments, petId,
                                   [memoryId |-> memoryId, bondLevel |-> 0])]

\* one call on the registry
RegistryCall ==
    /\ left.frames > 0
    /\ \/ \E m \in MemoryIds :
             /\ registry' = createMemory(registry, m)
             /\ hist' = [hist EXCEPT !.op = "createMemory", !.pet = NoPet]
       \/ \E m \in MemoryIds :
             /\ registry' = removeMemory(registry, m)
             /\ hist' = [hist EXCEPT !.op = "removeMemory", !.pet = NoPet]
       \/ \E i \in Pets, m \in MemoryIds :
             /\ registry' = assignGuardian(registry, i, m)
             /\ hist' = [hist EXCEPT !.op = "assignGuardian", !.pet = i]
       \/ \E i \in Pets :
             /\ registry' = unassignGuardian(registry, i)
             /\ hist' = [hist EXCEPT !.op = "unassignGuardian", !.pet = i]
    /\ left' = [left EXCEPT !.frames = @ - 1]
    /\ UNCHANGED <<scene, emitter, roster, gacha>>

\* ------------------------------------------------------------ the garden scene
\* scale: length units per world unit (1 where lengths are whole units)
GardenAt(surroundings, scale) ==
    /\ time = 0 /\ dt = 0 /\ phase = 0 /\ frameCounter = 0
    /\ pos = [i \in Pets |-> V2(StartPos[i].x * scale, StartPos[i].z * scale)]
    /\ vel = [i \in Pets |-> V2(0, 0)]
    /\ yaw = [i \in Pets |-> StartYaw[i]]
    /\ heldRef = [i \in Pets |-> FALSE]
    /\ brain = [i \in Pets |-> createBrainState]
    /\ social = [i \in Pets |-> createSocialState]
    /\ petting = [i \in Pets |-> createPetting]
    /\ posMapRef = [i \in {} |-> 0]
    /\ chaseModeRef = createChaseMode
    /\ pairCooldown = [pr \in Pairs |-> 0]
    /\ lastSleepSpotRef = 0
    /\ camera = V2(0, 0)
    /\ left = surroundings
    /\ hist = NoHist
    /\ emitter = NewEmitter
    /\ roster = [hook |-> NewRoster(<<>>), manager |-> NewRoster([i \in Pets |-> i])]
    /\ gacha = NewGacha
    /\ registry = NewRegistry

Garden(surroundings) == GardenAt(surroundings, 1)

\* PetManager's frame callback; the frame's clock reading is taken here
ManagerFrame ==
    /\ phase = 0
    /\ \E d \in left.dts, in \in ManagerInputs :
          LET t     == time + d
              fc    == (frameCounter + 1) % SOCIAL_CHECK_EVERY_FRAMES
              map   == Snapshot
              chase == ChaseStep(chaseModeRef, map, t, in)
              W0    == [cooldown |-> pairCooldown, social |-> social, brain |-> brain,
                        lastSpot |-> lastSleepSpotRef, greeted |-> {}, nudged |-> {}]
              W     == GreetScan(W0, fc, chase, map, t, in)
              began == chase.active /\ ~chaseModeRef.active
          IN  /\ t <= left.seconds
              /\ left.frames > 0
              /\ time' = t /\ dt' = d /\ frameCounter' = fc
              /\ posMapRef' = map
              /\ chaseModeRef' = chase
              /\ pairCooldown' = W.cooldown
              /\ social' = W.social
              /\ brain' = W.brain
              /\ lastSleepSpotRef' = W.lastSpot
              /\ left' = [left EXCEPT !.chases = IF began THEN @ - 1 ELSE @,
                                     !.frames = @ - 1,
                                     !.quiet = IF @ > 0 THEN @ - 1 ELSE 0]
              /\ hist' = [hist EXCEPT
                            !.op = "manager", !.pet = NoPet, !.greeted = W.greeted,
                            !.nudged = W.nudged, !.started = began,
                            !.lastGreetAt = [pr \in Pairs |-> IF pr \in W.greeted THEN t
                                                              ELSE hist.lastGreetAt[pr]],
                            !.prevGreetAt = [pr \in Pairs |-> IF pr \in W.greeted
                                                              THEN hist.lastGreetAt[pr]
                                                              ELSE hist.prevGreetAt[pr]],
                            !.start = [i \in Pets |-> [PetOf(i) EXCEPT !.brain = W.brain[i],
                                                                      !.social = W.social[i]]]]
              /\ phase' = 1
              /\ UNCHANGED <<pos, vel, yaw, heldRef, petting, camera, library>>

\* GardenPet's frame callback, for the pet whose turn it is
PetFrame ==
    /\ phase \in Pets
    /\ \E in \in PetInputs :
          LET i   == phase
              S   == GardenPetFrame(PetOf(i), i, time, dt, chaseModeRef, posMapRef, in)
          IN  /\ pos' = [pos EXCEPT ![i] = S.pos]
              /\ vel' = [vel EXCEPT ![i] = S.vel]
              /\ yaw' = [yaw EXCEPT ![i] = S.yaw]
              /\ heldRef' = [heldRef EXCEPT ![i] = S.held]
              /\ brain' = [brain EXCEPT ![i] = S.brain]
              /\ social' = [social EXCEPT ![i] = S.social]
              /\ petting' = [petting EXCEPT ![i] = S.petting]
              /\ left' = [left EXCEPT !.rolls = IF in.hit THEN @ - 1 ELSE @]
              /\ hist' = [hist EXCEPT !.op = "pet", !.pet = i]
    /\ phase' = IF phase = NumPets THEN 0 ELSE phase + 1
    /\ UNCHANGED <<time, dt, frameCounter, posMapRef, chaseModeRef, pairCooldown,
                   lastSleepSpotRef, camera, library>>

\* the player moves the camera between frames
PlayerMove ==
    /\ phase = 0
    /\ left.quiet = 0 /\ left.moves > 0
    /\ \E c \in CameraSet : camera' = c /\ c # camera
    /\ left' = [left EXCEPT !.moves = @ - 1]
    /\ hist' = [hist EXCEPT !.op = "player", !.pet = NoPet]
    /\ UNCHANGED <<time, dt, phase, frameCounter, pos, vel, yaw, heldRef, brain, social,
                   petting, posMapRef, chaseModeRef, pairCooldown, lastSleepSpotRef, library>>

\* a pointer move over the hit box of the pet the pointer is on, between frames
PetMove ==
    /\ phase = 0
    /\ left.strokes > 0
    /\ \E x \in left.pointer :
          LET i == left.over
              S == onPetMove(PetOf(i), x, PerfNow(time))
              counted == S.petting.flips # petting[i].flips
          IN  /\ x # petting[i].lastX
              /\ petting' = [petting EXCEPT ![i] = S.petting]
              /\ brain' = [brain EXCEPT ![i] = S.brain]
              /\ hist' = [hist EXCEPT
                            !.op = "petMove", !.pet = i, !.before = PetOf(i),
                            !.flipAt = IF ~counted THEN @
                                       ELSE IF petting[i].flips = 0 THEN <<time>>
                                       ELSE Append(@, time)]
    /\ left' = [left EXCEPT !.strokes = @ - 1]
    /\ UNCHANGED <<time, dt, phase, frameCounter, pos, vel, yaw, heldRef, social, posMapRef,
                   chaseModeRef, pairCooldown, lastSleepSpotRef, camera, library>>

\* a drag event on pet i, between frames
Drag ==
    /\ phase = 0
    /\ \E i \in Pets, ev \in GestureEvents :
          LET S == onDrag(PetOf(i), ev, PerfNow(time))
          IN  /\ IF ev.first
                 THEN left.quiet = 0 /\ left.drags > 0 /\ \A j \in Pets : ~heldRef[j]
                 ELSE heldRef[i]
              /\ pos' = [pos EXCEPT ![i] = S.pos]
              /\ vel' = [vel EXCEPT ![i] = S.vel]
              /\ heldRef' = [heldRef EXCEPT ![i] = S.held]
              /\ brain' = [brain EXCEPT ![i] = S.brain]
              /\ left' = [left EXCEPT !.drags = IF ev.first THEN @ - 1 ELSE @]
              /\ hist' = [hist EXCEPT !.op = IF ev.first THEN "dragStart"
                                             ELSE IF ev.active THEN "dragMove" ELSE "dragEnd",
                                      !.pet = i]
    /\ UNCHANGED <<time, dt, phase, frameCounter, yaw, social, petting, posMapRef,
                   chaseModeRef, pairCooldown, lastSleepSpotRef, camera, library>>

\* ------------------------------------------------------------ pets-core: updateBrain
\* Sleep check (if not interacted for a while)
CoreSleep(B, p, in) ==
    IF B.mode # "sleeping" /\ p.playerDist2 <= NearbyDist2
       /\ PerfNow(p.time) - B.lastInteractAt > sleepAfterNoInteractS /\ in.sleepR < 35 * p.dt
    THEN [B EXCEPT !.mode = "sleeping",
                   !.t = CeilS(randRange(3000, 6000, in.durR)),
                   !.restSpot = IF Len(p.rugs) > 0
                                THEN V2(p.rugs[pick(Len(p.rugs), in.pickR)][1],
                                        p.rugs[pick(Len(p.rugs), in.pickR)][2])
                                ELSE @]
    ELSE B

\* Wandering state transitions
CoreWander(B, p, in) ==
    IF B.mode = "wandering"
    THEN LET walkS == B.walkS + p.dt
         IN  IF p.playerDist2 > NearbyDist2
             THEN [B EXCEPT !.mode = "following", !.walkS = walkS]
             ELSE IF walkS > restAfterWalkS /\ in.restR < 100 * p.dt
             THEN [B EXCEPT !.mode = "resting",
                            !.t = CeilS(randRange(2600, 4800, in.durR)),
                            !.walkS = 0,
                            !.restSpot = IF Len(p.rugs) > 0
                                         THEN V2(p.rugs[pick(Len(p.rugs), in.pickR)][1],
                                                 p.rugs[pick(Len(p.rugs), in.pickR)][2])
                                         ELSE @]
             ELSE IF in.curR < 110 * p.dt
             THEN [B EXCEPT !.mode = "curious",
                            !.t = CeilS(randRange(1200, 2200, in.durR)),
                            !.walkS = walkS]
             ELSE [B EXCEPT !.walkS = walkS]
    ELSE B

\* Following -> wandering when close again
CoreUnfollow(B, p) ==
    IF B.mode = "following" /\ p.playerDist2 <= NearbyDist2
    THEN [B EXCEPT !.mode = "wandering", !.walkS = 0]
    ELSE B

\* Curious/resting/sleeping timer expiry
CoreExpiry(B) ==
    IF B.mode \in {"curious", "resting", "sleeping"} /\ B.t <= 0
    THEN [B EXCEPT !.mode = "wandering"]
    ELSE B

\* updateBrain(brain, params); in holds the Math.random() results
updateBrain(B, p, in) ==
    LET B1 == [B EXCEPT !.t = @ - p.dt]
    IN  IF p.isHeld THEN [B1 EXCEPT !.mode = "held"]
        ELSE IF p.chaseMode.active
        THEN IF p.chaseMode.chaserId = p.petId
             THEN [B1 EXCEPT !.mode = "chasing", !.t = p.chaseMode.until - p.time]
             ELSE IF p.chaseMode.runnerId = p.petId
             THEN [B1 EXCEPT !.mode = "running", !.t = p.chaseMode.until - p.time]
             ELSE B1
        ELSE IF p.socialActive THEN [B1 EXCEPT !.mode = "socializing"]
        ELSE CoreExpiry(CoreUnfollow(CoreWander(CoreSleep(B1, p, in), p, in), p))

\* the rest spots the caller has: the scene's, unless the run has its own list
CoreRugs == IF "rugs" \in DOMAIN left THEN left.rugs ELSE rugs

\* the arguments a caller may pass to updateBrain for pet i at the current time
CoreArgs(i) ==
    {[dt |-> d, time |-> time + d, isHeld |-> h, socialActive |-> so, playerDist2 |-> d2,
      chaseMode |-> ch, petId |-> i, rugs |-> CoreRugs]
        : d \in 0..MaxDt, h \in BOOLEAN, so \in BOOLEAN, d2 \in {50, 68, 100},
          ch \in {createChaseMode,
                  [createChaseMode EXCEPT !.active = TRUE, !.until = time + 3,
                                          !.chaserId = 1, !.runnerId = 2]}}

\* the Math.random() results of one call: at most one roll hits
CoreDraws ==
    LET miss == [sleepR |-> 999, restR |-> 999, curR |-> 999, durR |-> 0, pickR |-> 0]
    IN  {miss}
        \cup {[miss EXCEPT !.sleepR = 0, !.durR = du, !.pickR = pk] : du \in {0, 999}, pk \in {0, 999}}
        \cup {[miss EXCEPT !.restR = 0, !.durR = du, !.pickR = pk] : du \in {0, 999}, pk \in {0, 999}}
        \cup {[miss EXCEPT !.curR = 0, !.durR = du] : du \in {0, 999}}

\* a caller of the library updates the brain of one pet
CoreUpdateBrain ==
    /\ left.frames > 0
    /\ \E i \in Pets : \E p \in CoreArgs(i), in \in CoreDraws :
          /\ brain' = [brain EXCEPT ![i] = updateBrain(brain[i], p, in)]
          /\ time' = p.time /\ dt' = p.dt
          /\ hist' = [hist EXCEPT !.op = "updateBrain", !.pet = i, !.pre = brain[i], !.args = p]
    /\ left' = [left EXCEPT !.frames = @ - 1]
    /\ UNCHANGED <<phase, frameCounter, pos, vel, yaw, heldRef, social, petting, posMapRef,
                   chaseModeRef, pairCooldown, lastSleepSpotRef, camera, library>>


\* ------------------------------------------------------------ pets-core: chase
\* the retry loop over an array of n pets: the runner it ends with, and the
\* number of re-draws
RECURSIVE CoreRetry(_, _, _, _, _, _)
CoreRetry(n, a, b, guard, draws, i) ==
    IF b = a /\ guard < GuardMax
    THEN CoreRetry(n, a, pick(n, draws[i + 1]), guard + 1, draws, i + 1)
    ELSE [b |-> b, redraws |-> guard]

\* a runner that is taken without the final test
DistinctRunner_unchecked(a, b) == TRUE
\* if (b.id === a.id) return false
DistinctRunner(a, b) == b # a

\* maybeStartChase(chaseMode, pets, time) for an array of n pets: the chase
\* state after the call, the value returned, and the re-draws made
maybeStartChase(chase, n, t, in) ==
    LET same == [chase |-> chase, returned |-> FALSE, redraws |-> 0]
    IN  IF chase.active THEN same
        ELSE IF n < 2 THEN same
        ELSE IF in.chaseR * 60 >= 40 THEN same
        ELSE LET a == pick(n, in.aR)
                 r == CoreRetry(n, a, pick(n, in.bDraws[1]), 0, in.bDraws, 1)
             IN  IF ~DistinctRunner(a, r.b) THEN [same EXCEPT !.redraws = r.redraws]
                 ELSE [chase |-> StartChase(chase, a, r.b, t, in.durR), returned |-> TRUE,
                       redraws |-> r.redraws]

\* updateChaseMode(chaseMode, posMap, time, baseY)
updateChaseMode(chase, map, t) ==
    IF ~chase.active THEN chase
    ELSE LET c1 == [chase EXCEPT
                      !.chaserPos = IF chase.chaserId \in DOMAIN map
                                    THEN V2(map[chase.chaserId].x, map[chase.chaserId].z) ELSE @,
                      !.runnerPos = IF chase.runnerId \in DOMAIN map
                                    THEN V2(map[chase.runnerId].x, map[chase.runnerId].z) ELSE @]
         IN  IF t > c1.until
             THEN [c1 EXCEPT !.active = FALSE, !.chaserId = NoPet, !.runnerId = NoPet]
             ELSE c1

\* the draws of one maybeStartChase call: the chaser's own index comes up j
\* times in a row for the runner, then draw r
StartDraws ==
    {[chaseR |-> c, aR |-> a, durR |-> du,
      bDraws |-> [i \in 1..(GuardMax + 1) |-> IF i <= j THEN a ELSE r]]
        : c \in {0, 999}, a \in RandSet, du \in {0, 999}, r \in RandSet,
          j \in {0, 2, GuardMax, GuardMax + 1}}

\* a caller of the library asks for a chase, with one pet or with all of them
CoreMaybeStartChase ==
    /\ left.frames > 0
    /\ \E n \in {1, NumPets}, in \in StartDraws :
          LET r == maybeStartChase(chaseModeRef, n, time, in)
          IN  /\ chaseModeRef' = r.chase
              /\ hist' = [hist EXCEPT !.op = "maybeStartChase", !.pet = NoPet,
                                      !.before = chaseModeRef,
                                      !.args = [pets |-> n, returned |-> r.returned,
                                                redraws |-> r.redraws]]
    /\ left' = [left EXCEPT !.frames = @ - 1]
    /\ UNCHANGED <<time, dt, phase, frameCounter, pos, vel, yaw, heldRef, brain, social,
                   petting, posMapRef, pairCooldown, lastSleepSpotRef, camera, library>>

\* a caller of the library updates the chase state in its frame
CoreUpdateChaseMode ==
    /\ left.frames > 0
    /\ \E d \in left.dts :
          /\ time + d <= left.seconds
          /\ time' = time + d /\ dt' = d
          /\ chaseModeRef' = updateChaseMode(chaseModeRef, Snapshot, time + d)
    /\ hist' = [hist EXCEPT !.op = "updateChaseMode", !.pet = NoPet]
    /\ left' = [left EXCEPT !.frames = @ - 1]
    /\ UNCHANGED <<phase, frameCounter, pos, vel, yaw, heldRef, brain, social, petting,
                   posMapRef, pairCooldown, lastSleepSpotRef, camera, library>>

\* ------------------------------------------------------------ pets-core: calculateMovement
\* Wandering with noise + wall steering: the normalised direction, thousandths
CoreWanderDir(p, prm) ==
    LET tx == prm.noise.x * 1000 + WallSteer(p.x, prm.bounds.minX, prm.bounds.maxX)
                + prm.separationVec.x
        tz == prm.noise.z * 1000 + WallSteer(p.z, prm.bounds.minZ, prm.bounds.maxZ)
                + prm.separationVec.z
        l  == Isqrt(tx * tx + tz * tz)
    IN  IF l > 1 THEN V2(TruncDiv(tx * 1000, l), TruncDiv(tz * 1000, l)) ELSE V2(tx, tz)

\* calculateMovement(brain, pos, vel, params): the new velocity
calculateMovement(B, p, v, prm) ==
    LET k == 60 * prm.dt
        damp(pct) == V2(DampPow(v.x, pct, k), DampPow(v.z, pct, k))
        seek(tx, tz, gainMilli) ==
            V2(DampPow(v.x + Steer(tx, tx, tz, gainMilli, prm.dt), 86, k),
               DampPow(v.z + Steer(tz, tx, tz, gainMilli, prm.dt), 86, k))
    IN  IF B.mode = "socializing" THEN damp(72)
        ELSE IF B.mode = "curious" THEN damp(70)
        ELSE IF B.mode \in {"resting", "sleeping"}
        THEN LET dx == B.restSpot.x - p.x
                 dz == B.restSpot.z - p.z
             IN  IF LenMilli(dx, dz) > 200
                 THEN V2(v.x + Steer(dx, dx, dz, 2200, prm.dt),
                         v.z + Steer(dz, dx, dz, 2200, prm.dt))
                 ELSE damp(70)
        ELSE IF B.mode = "following"
        THEN seek(prm.playerPos.x - p.x, prm.playerPos.z - p.z,
                  IF prm.isMobile THEN 4960 ELSE 5600)
        ELSE IF B.mode = "chasing"
        THEN seek(prm.chaseMode.runnerPos.x - p.x, prm.chaseMode.runnerPos.z - p.z, 6150)
        ELSE IF B.mode = "running"
        THEN seek(p.x - prm.chaseMode.chaserPos.x, p.z - prm.chaseMode.chaserPos.z, 6300)
        ELSE LET w == CoreWanderDir(p, prm)
             IN  V2(DampPow(v.x + TruncDiv(w.x * 3250 * prm.dt, 1000000), 88, k),
                    DampPow(v.z + TruncDiv(w.z * 3250 * prm.dt, 1000000), 88, k))

\* the parameters a caller may pass to calculateMovement at the current time
MoveParams ==
    {[dt |-> d, time |-> time, bounds |-> bounds, playerPos |-> camera,
      chaseMode |-> chaseModeRef, separationVec |-> V2(0, 0), isMobile |-> mob, noise |-> n]
        : d \in 0..MaxDt, mob \in BOOLEAN, n \in NoiseSet}

\* a caller of the library computes the new velocity of one pet and stores it
CoreCalculateMovement ==
    /\ left.frames > 0
    /\ \E i \in Pets : \E prm \in MoveParams :
          /\ vel' = [vel EXCEPT ![i] = calculateMovement(brain[i], pos[i], vel[i], prm)]
          /\ dt' = prm.dt
          /\ hist' = [hist EXCEPT !.op = "calculateMovement", !.pet = i, !.before = PetOf(i)]
    /\ left' = [left EXCEPT !.frames = @ - 1]
    /\ UNCHANGED <<time, phase, frameCounter, pos, yaw, heldRef, brain, social, petting,
                   posMapRef, chaseModeRef, pairCooldown, lastSleepSpotRef, camera, library>>

\* ------------------------------------------------------------ GardenPet at 60 Hz
\* One frame of 1/60 s with lengths in thousandths of a unit and velocities in
\* thousandths per frame; steering vectors are in ten-thousandths.  At the
\* resolution of whole seconds such a frame has dt = 0: timers stand still and
\* no roll can hit.
\* the unit vector along (tx, tz), thousandths: if (d > 0.001) tmp *= 1 / d
FineDir(tx, tz) ==
    LET d == Isqrt(tx * tx + tz * tz)
    IN  IF d > 1 THEN V2(TruncDiv(tx * 1000, d), TruncDiv(tz * 1000, d)) ELSE V2(tx, tz)

\* Separation from other pets, reading the other pets' live positions
RECURSIVE FineSep_live(_, _, _, _)
FineSep_live(ids, id, p, map) ==
    IF ids = {} THEN V2(0, 0)
    ELSE LET o    == CHOOSE q \in ids : TRUE
             rest == FineSep_live(ids \ {o}, id, p, map)
             ox   == p.x - pos[o].x
             oz   == p.z - pos[o].z
             d2   == ox * ox + oz * oz
             d    == Isqrt(d2)
             push == ((2300 - d) * 180) \div 2300
         IN  IF o # id /\ d2 < 2300 * 2300 /\ d2 > 100
             THEN V2(rest.x + TruncDiv(ox * push, d), rest.z + TruncDiv(oz * push, d))
             ELSE rest

\* Separation from other pets: reads the manager's snapshot only
RECURSIVE FineSep(_, _, _, _)
FineSep(ids, id, p, map) ==
    IF ids = {} THEN V2(0, 0)
    ELSE LET o    == CHOOSE q \in ids : TRUE
             rest == FineSep(ids \ {o}, id, p, map)
             ox   == p.x - map[o].x
             oz   == p.z - map[o].z
             d2   == ox * ox + oz * oz
             d    == Isqrt(d2)
             \* (1 - d / 2.3) * 0.018
             push == ((2300 - d) * 180) \div 2300
         IN  IF o # id /\ d2 < 2300 * 2300 /\ d2 > 100
             THEN V2(rest.x + TruncDiv(ox * push, d), rest.z + TruncDiv(oz * push, d))
             ELSE rest

\* Player personal space
FinePlayerSep(p, cam) ==
    LET ox == p.x - cam.x
        oz == p.z - cam.z
        d2 == ox * ox + oz * oz
        d  == Isqrt(d2)
    IN  IF d2 < 1600 * 1600 /\ d2 > 100
        THEN V2(TruncDiv(ox * 220, d), TruncDiv(oz * 220, d))
        ELSE V2(0, 0)

\* wall steering, thousandths: active within margin 1.25 of a bound
FineWallSteer(c, lo, hi) ==
    (IF c > hi - 1250 THEN 0 - (((c - (hi - 1250)) * 1000) \div 1250) ELSE 0)
    + (IF c < lo + 1250 THEN (((lo + 1250) - c) * 1000) \div 1250 ELSE 0)

\* Wandering with noise + wall steering: the normalised steering vector, thousandths
FineWanderDir(S, id, map, in) ==
    LET l   == Isqrt(in.noise.x * in.noise.x + in.noise.z * in.noise.z)
        n   == IF l > 1 THEN V2(TruncDiv(in.noise.x * 10000, l), TruncDiv(in.noise.z * 10000, l))
               ELSE V2(in.noise.x * 10, in.noise.z * 10)
        sp  == FineSep(DOMAIN map, id, S.pos, map)
        pl  == FinePlayerSep(S.pos, in.camera)
        tx  == n.x + TruncDiv(FineWallSteer(S.pos.x, bounds.minX * 1000, bounds.maxX * 1000) * 125, 10)
                   + sp.x + pl.x
        tz  == n.z + TruncDiv(FineWallSteer(S.pos.z, bounds.minZ * 1000, bounds.maxZ * 1000) * 125, 10)
                   + sp.z + pl.z
        l2  == Isqrt(tx * tx + tz * tz)
    IN  IF l2 > 10 THEN V2(TruncDiv(tx * 1000, l2), TruncDiv(tz * 1000, l2))
        ELSE V2(TruncDiv(tx, 10), TruncDiv(tz, 10))

\* AI: the velocity, yaw and mode after the per-mode branch
FineMove(S, id, chase, map, in) ==
    LET mode == S.brain.mode
        dxp  == in.camera.x - S.pos.x
        dzp  == in.camera.z - S.pos.z
        damp(pct) == V2(TruncDiv(S.vel.x * pct, 100), TruncDiv(S.vel.z * pct, 100))
        seek(tx, tz, gainMilli, pct) ==
            LET dir == FineDir(tx, tz)
                v   == V2(TruncDiv((S.vel.x + TruncDiv(dir.x * gainMilli, 60000)) * 86, 100),
                          TruncDiv((S.vel.z + TruncDiv(dir.z * gainMilli, 60000)) * 86, 100))
            IN  [S EXCEPT !.vel = v, !.yaw = dampAngle(@, atan2(v.x, v.z), pct)]
    IN  IF mode = "socializing"
        THEN [S EXCEPT !.vel = damp(72), !.yaw = dampAngle(@, S.social.facePartnerYaw, 14)]
        ELSE IF mode = "curious"
        THEN [S EXCEPT !.vel = damp(70), !.yaw = dampAngle(@, atan2(dxp, dzp), 12),
                       !.brain.mode = IF S.brain.t <= 0 THEN "wandering" ELSE @]
        ELSE IF mode \in {"resting", "sleeping"}
        THEN LET rx == S.brain.restSpot.x - S.pos.x
                 rz == S.brain.restSpot.z - S.pos.z
                 d  == Isqrt(rx * rx + rz * rz)
             IN  IF d > 200
                 THEN LET v == V2(S.vel.x + TruncDiv(TruncDiv(rx * 1000, d) * 2200, 60000),
                                  S.vel.z + TruncDiv(TruncDiv(rz * 1000, d) * 2200, 60000))
                      IN  [S EXCEPT !.vel = v, !.yaw = dampAngle(@, atan2(v.x, v.z), 10)]
                 ELSE [S EXCEPT !.vel = damp(70),
                                !.brain.mode = IF S.brain.t <= 0 THEN "wandering" ELSE @]
        ELSE IF mode = "following"
        THEN seek(dxp, dzp, 4950, 12)
        ELSE IF mode = "chasing"
        THEN seek(S.brain.restSpot.x - S.pos.x, S.brain.restSpot.z - S.pos.z, 6150, 13)
        ELSE IF mode = "running"
        THEN seek(S.pos.x - chase.chaserPos.x, S.pos.z - chase.chaserPos.z, 6300, 13)
        ELSE LET w == FineWanderDir(S, id, map, in)
                 v == V2(TruncDiv((S.vel.x + TruncDiv(w.x * 3120, 60000)) * 88, 100),
                         TruncDiv((S.vel.z + TruncDiv(w.z * 3120, 60000)) * 88, 100))
             IN  [S EXCEPT !.vel = v, !.yaw = dampAngle(@, atan2(v.x, v.z), 9)]

\* Integrate (dt * 60 = 1), then the hard clamp
FineIntegrate(S) ==
    [S EXCEPT !.pos = V2(clamp(S.pos.x + S.vel.x, bounds.minX * 1000, bounds.maxX * 1000),
                         clamp(S.pos.z + S.vel.z, bounds.minZ * 1000, bounds.maxZ * 1000))]

\* the whole frame callback of one pet
FinePetFrame(S, id, t, chase, map, in) ==
    LET S1 == ChaseInfluence(LoveDecay(SocialExpiry(S, t), 0, in.durR), id, chase, t)
        shouldFollow == Dist2(in.camera, S1.pos) > FollowDist2 * 1000 * 1000
    IN  IF S1.held THEN S1
        ELSE FineIntegrate(FineMove(GardenBrainWith(S1, t, 0, shouldFollow, in),
                                    id, chase, map, in))

\* the samples of noise1D a run may see, thousandths: a sample is a function of
\* the clock and the pet's seed, so a pet's sample is fixed while the clock stands
FineNoise == {<<V2(0, 0), V2(0, 0), V2(0, 0), V2(0, 0)>>,
              <<V2(900, 0), V2(0, 0), V2(-600, 600), V2(0, 0)>>}

\* what one GardenPet frame consumes: no roll can hit in a frame this short
FineInputs(i) ==
    [camera |-> camera, sleepR |-> 999, restR |-> 999, curR |-> 999,
     durR |-> 0, pickR |-> 0, noise |-> left.noise[i], hit |-> FALSE]

\* the orders in which the renderer may call the pets' frame callbacks
Orders == {o \in [Pets -> Pets] : \A i, j \in Pets : i # j => o[i] # o[j]}

\* GardenPet's frame callback at 60 Hz, for the pet whose turn it is
FineFrame ==
    /\ phase \in Pets
    /\ LET i == left.order[phase]
           S == FinePetFrame(PetOf(i), i, time, chaseModeRef, posMapRef, FineInputs(i))
       IN  /\ pos' = [pos EXCEPT ![i] = S.pos]
           /\ vel' = [vel EXCEPT ![i] = S.vel]
           /\ yaw' = [yaw EXCEPT ![i] = S.yaw]
           /\ heldRef' = [heldRef EXCEPT ![i] = S.held]
           /\ brain' = [brain EXCEPT ![i] = S.brain]
           /\ social' = [social EXCEPT ![i] = S.social]
           /\ petting' = [petting EXCEPT ![i] = S.petting]
           /\ hist' = [hist EXCEPT !.op = "pet", !.pet = i]
    /\ phase' = IF phase = NumPets THEN 0 ELSE phase + 1
    /\ UNCHANGED <<time, dt, frameCounter, posMapRef, chaseModeRef, pairCooldown,
                   lastSleepSpotRef, camera, left, library>>

\* ------------------------------------------------------------ dampAngle
\* the target yaws, in (-pi, pi], and the damping factors (hundredths) of a call
TargetSet == (1 - HalfTurn)..HalfTurn
FactorSet == {25, 50, 75}

\* a caller damps the yaw of one pet toward a target; only calls whose result
\* is a whole number of angle units are taken, so that d * t is exact
DampYaw ==
    /\ left.frames > 0
    /\ \E i \in Pets, b \in TargetSet, pct \in FactorSet :
          /\ ((JsRem(b - yaw[i] + HalfTurn, 2 * HalfTurn) - HalfTurn) * pct) % 100 = 0
          /\ yaw' = [yaw EXCEPT ![i] = dampAngle(@, b, pct)]
          /\ hist' = [hist EXCEPT !.op = "dampAngle", !.pet = i, !.args = <<yaw[i], b, pct>>]
    /\ left' = [left EXCEPT !.frames = @ - 1]
    /\ UNCHANGED <<time, dt, phase, frameCounter, pos, vel, heldRef, brain, social, petting,
                   posMapRef, chaseModeRef, pairCooldown, lastSleepSpotRef, camera, library>>

\* what the surroundings of a run may do
Surroundings(seconds, dts, frames, quiet, chases, drags, rolls, moves) ==
    [seconds |-> seconds, dts |-> dts, frames |-> frames, quiet |-> quiet,
     chases |-> chases, drags |-> drags, rolls |-> rolls, moves |-> moves]

\* the undisturbed garden
InitCalm == Garden(Surroundings(CalmSeconds, {0, CalmDt}, CalmFrames, 0, 0, 0, 0, 0))
NextCalm == ManagerFrame \/ PetFrame
SpecCalm == InitCalm /\ [][NextCalm]_vars

\* the garden with one chase burst
InitChase == Garden(Surroundings(ChaseSeconds, {0, ChaseDt}, ChaseFrames, ChaseQuiet, 1, 0, 0, 0))
NextChase == ManagerFrame \/ PetFrame
SpecChase == InitChase /\ [][NextChase]_vars

\* the garden with one pickup and one roll that hits
InitDrag == Garden(Surroundings(DragSeconds, 0..MaxDt, DragFrames, DragQuiet, 0, 1, 1, 0))
NextDrag == ManagerFrame \/ PetFrame \/ Drag
SpecDrag == InitDrag /\ [][NextDrag]_vars

\* the garden with one roll that hits
InitIdle == Garden(Surroundings(IdleSeconds, {0, IdleDt}, IdleFrames, 0, 0, 0, 1, 0))
NextIdle == ManagerFrame \/ PetFrame
SpecIdle == InitIdle /\ [][NextIdle]_vars

\* the pets-core library driven by an arbitrary caller
InitCore == Garden(Surroundings(CoreCalls, 0..MaxDt, CoreCalls, 0, 0, 0, 0, 0))
NextCore == CoreUpdateBrain
SpecCore == InitCore /\ [][NextCore]_vars

\* the garden with a moving player
InitPlayer == Garden(Surroundings(PlayerSeconds, 0..MaxDt, PlayerFrames, 0, 0, 0, 0, 2))
NextPlayer == ManagerFrame \/ PetFrame \/ PlayerMove
SpecPlayer == InitPlayer /\ [][NextPlayer]_vars

\* the garden with a greet and a player who walks away
InitFar == Garden(Surroundings(FarSeconds, 0..MaxDt, FarFrames, FarQuiet, 0, 0, 0, 1))
NextFar == ManagerFrame \/ PetFrame \/ PlayerMove
SpecFar == InitFar /\ [][NextFar]_vars

\* a few 60 Hz frames of the garden with one chase burst, the pets' callbacks
\* called in any one order
InitOrder ==
    \E o \in Orders, n \in FineNoise :
        GardenAt(Surroundings(0, {0}, OrderFrames, 0, 1, 0, 0, 0) @@ [order |-> o, noise |-> n],
                 1000)
NextOrder == ManagerFrame \/ FineFrame
SpecOrder == InitOrder /\ [][NextOrder]_vars

\* dampAngle driven by an arbitrary caller, from the yaws defaultPets gives
InitAngle == Garden(Surroundings(0, {0}, AngleSteps, 0, 0, 0, 0, 0))
NextAngle == DampYaw
SpecAngle == InitAngle /\ [][NextAngle]_vars

\* the garden with a pointer moving over one pet, and one pickup
InitPet ==
    Garden(Surroundings(PetSeconds, {MaxDt}, PetFrames, 1, 0, 1, 0, 0)
           @@ [strokes |-> PetStrokes, over |-> 1, pointer |-> PointerSet])
NextPet == ManagerFrame \/ PetFrame \/ PetMove \/ Drag
SpecPet == InitPet /\ [][NextPet]_vars

\* the garden with a pointer stroking one pet to and fro, and one pickup
InitLove ==
    Garden(Surroundings(LoveSeconds, {MaxDt}, LoveFrames, 0, 0, 1, 0, 0)
           @@ [strokes |-> LoveStrokes, over |-> 1, pointer |-> StrokeSet])
NextLove == ManagerFrame \/ PetFrame \/ PetMove \/ Drag
SpecLove == InitLove /\ [][NextLove]_vars

\* the pets-core library driven by a caller that has no rest spots
InitRest == Garden(Surroundings(RestCalls, 0..MaxDt, RestCalls, 0, 0, 0, 0, 0) @@ [rugs |-> <<>>])
NextRest == CoreUpdateBrain \/ CoreCalculateMovement
SpecRest == InitRest /\ [][NextRest]_vars

\* the garden with one chase burst and one roll that hits
InitDoze == Garden(Surroundings(DozeSeconds, 0..MaxDt, DozeFrames, 0, 1, 0, 1, 0))
NextDoze == ManagerFrame \/ PetFrame
SpecDoze == InitDoze /\ [][NextDoze]_vars

\* the garden with a long walk, a greet and one roll that hits
InitNap == Garden(Surroundings(2 * NapDt, {0, NapDt}, NapFrames, NapQuiet, 0, 0, 1, 0))
NextNap == ManagerFrame \/ PetFrame
SpecNap == InitNap /\ [][NextNap]_vars

\* the garden with one pickup; the pointer may be lifted where it went down
InitHold ==
    Garden(Surroundings(HoldSeconds, 0..MaxDt, HoldFrames, 0, 0, 1, 0, 0) @@ [taps |-> TRUE])
NextHold == ManagerFrame \/ PetFrame \/ Drag
SpecHold == InitHold /\ [][NextHold]_vars

\* an event emitter with callbacks registered once
InitEmitter == Garden(Surroundings(0, {0}, EmitCalls, 0, 0, 0, 0, 0))
NextEmitter == EmitterOnce \/ EmitterEmit
SpecEmitter == InitEmitter /\ [][NextEmitter]_vars

\* rosters whose pets are added and removed between renders
InitRoster == Garden(Surroundings(0, {0}, RosterCalls, 0, 0, 0, 0, 0))
NextRoster == RosterHookAdd \/ RosterHookRemove \/ RosterManagerAdd \/ RosterRender
SpecRoster == InitRoster /\ [][NextRoster]_vars

\* a gacha manager that is pulled and reset
InitGacha == Garden(Surroundings(0, {0}, GachaPulls, 0, 0, 0, 0, 0))
NextGacha == GachaPull \/ GachaReset
SpecGacha == InitGacha /\ [][NextGacha]_vars

\* a caller of the library's chase functions
InitStart == Garden(Surroundings(StartCalls * StartDt, {0, StartDt}, StartCalls, 0, 0, 0, 0, 0))
NextStart == CoreMaybeStartChase \/ CoreUpdateChaseMode
SpecStart == InitStart /\ [][NextStart]_vars

\* the garden with a greet and, after it, one pickup
InitPart ==
    Garden(Surroundings(NapDt + PartDt, {0, PartDt, NapDt}, NapFrames, NapFrames - 1, 0, 1, 0, 0))
NextPart == ManagerFrame \/ PetFrame \/ Drag
SpecPart == InitPart /\ [][NextPart]_vars

\* a memory registry under calls of its four operations
InitRegistry == Garden(Surroundings(0, {0}, RegistryCalls, 0, 0, 0, 0, 0))
NextRegistry == RegistryCall
SpecRegistry == InitRegistry /\ [][NextRegistry]_vars

\* ------------------------------------------------------------ properties
InBounds(p) ==
    /\ bounds.minX <= p.x /\ p.x <= bounds.maxX
    /\ bounds.minZ <= p.z /\ p.z <= bounds.maxZ

\* C1: every pet's position is inside the room's bounds after every frame
\* update, whatever its mode, velocity and dt, and after every drag event
C1_PositionInBounds == \A i \in Pets : InBounds(pos[i])

\* a sleeping pet whose integration step left the room has just been clamped,
\* while a held pet sits where a pointer outside the room was clamped to
C1_Witness ==
    \E i, j \in Pets :
        /\ hist.op = "pet" /\ hist.pet = i /\ ~heldRef[i]
        /\ ~InBounds(V2(posMapRef[i].x + vel[i].x * dt * 60, posMapRef[i].z + vel[i].z * dt * 60))
        /\ InBounds(pos[i])
        /\ heldRef[j] /\ pos[j] = V2(bounds.maxX, bounds.minZ)

\* C2: two greets of the same pair are at least SOCIAL_COOLDOWN_S apart: after a
\* greet at t0 the pair does not greet again at any scan time t with t0 <= t < t0 + 10
C2_PairCooldown ==
    \A pr \in Pairs :
        hist.prevGreetAt[pr] >= 0
            => hist.lastGreetAt[pr] >= hist.prevGreetAt[pr] + SOCIAL_COOLDOWN_S

\* a scan has just greeted a pair for the second time, at the first moment the
\* cooldown allows
C2_Witness ==
    \E pr \in Pairs :
        /\ hist.op = "manager" /\ pr \in hist.greeted
        /\ hist.prevGreetAt[pr] >= 0
        /\ hist.lastGreetAt[pr] = time
        /\ time = hist.prevGreetAt[pr] + SOCIAL_COOLDOWN_S

\* C3: whenever the chase episode is active, its chaser and its runner are
\* different pets (a retry loop that ends on the chaser itself starts no episode)
C3_ChaserIsNotRunner ==
    chaseModeRef.active => chaseModeRef.chaserId # chaseModeRef.runnerId

\* C4: a pet that is the chaser or the runner of the active episode never has
\* social.active
C4_ChaseExcludesSocial ==
    \A i \in Pets :
        chaseModeRef.active /\ (i = chaseModeRef.chaserId \/ i = chaseModeRef.runnerId)
            => ~social[i].active

\* C5: at the end of a pet's frame update, a pet that is not held and is the
\* active episode's chaser is chasing, and one that is its runner (and not also
\* its chaser) is running, whatever its social.active
C5_ChaseDominatesSocial ==
    \A i \in Pets :
        hist.op = "pet" /\ hist.pet = i /\ ~heldRef[i] /\ chaseModeRef.active
            => /\ i = chaseModeRef.chaserId => brain[i].mode = "chasing"
               /\ i = chaseModeRef.runnerId /\ i # chaseModeRef.chaserId
                    => brain[i].mode = "running"

\* C6: after a pet's frame update in which no episode is active, the pet is
\* neither chasing nor running
C6_ChaseModeEndsWithEpisode ==
    \A i \in Pets :
        hist.op = "pet" /\ hist.pet = i /\ ~chaseModeRef.active
            => brain[i].mode \notin {"chasing", "running"}

\* C7: a pet that is held has mode held, whatever the manager (greet, cuddle
\* nudge, chase start) and the frame updates do between pickup and release
C7_HeldStaysHeld == \A i \in Pets : heldRef[i] => brain[i].mode = "held"

\* C8: a call of updateBrain with isHeld = true leaves the brain's mode timer
\* and walk accumulator as they were
C8_HeldUpdateFreezesTimers ==
    hist.op = "updateBrain" /\ hist.args.isHeld
        => /\ brain[hist.pet].t = hist.pre.t
           /\ brain[hist.pet].walkS = hist.pre.walkS

\* a pet the chase episode and the greets leave alone
Unassigned(i) ==
    /\ ~heldRef[i] /\ ~social[i].active
    /\ ~(chaseModeRef.active /\ (i = chaseModeRef.chaserId \/ i = chaseModeRef.runnerId))

\* the modes that run on the mode timer
TimedModes == {"curious", "resting", "sleeping"}

\* C9: a pet that is not held, not chase-assigned and not social, that was
\* curious, resting or sleeping when its frame update began and whose mode timer
\* is at or below zero in that update, is no longer in that mode after it
C9_TimedModesExpire ==
    \A i \in Pets :
        hist.op = "pet" /\ hist.pet = i /\ Unassigned(i)
        /\ posMapRef[i].mode \in TimedModes /\ brain[i].t <= 0
            => brain[i].mode \notin TimedModes

\* C10: after the frame update of a pet that is not held, not chase-assigned and
\* not social, (a) the pet is following if it was more than 8 units (64 squared)
\* from the camera and is not sleeping, and (b) a pet that was following and is
\* within that distance is wandering with walkS = 0
C10_FollowThreshold ==
    \A i \in Pets :
        hist.op = "pet" /\ hist.pet = i /\ Unassigned(i)
            => LET d2 == Dist2(camera, V2(posMapRef[i].x, posMapRef[i].z))
               IN  /\ d2 > NearbyDist2 /\ brain[i].mode # "sleeping"
                        => brain[i].mode = "following"
                   /\ d2 <= NearbyDist2 /\ posMapRef[i].mode = "following"
                        => brain[i].mode = "wandering" /\ brain[i].walkS = 0

\* a pet that is the chaser or the runner of the active episode
ChaseAssigned(i) ==
    chaseModeRef.active /\ (i = chaseModeRef.chaserId \/ i = chaseModeRef.runnerId)

\* C11: at the end of the frame update of a pet that is not held and not
\* chase-assigned, social.active implies mode socializing, whatever the pet's
\* distance to the camera, its walk accumulator and the random draws
C11_SocialWins ==
    \A i \in Pets :
        hist.op = "pet" /\ hist.pet = i /\ ~heldRef[i] /\ ~ChaseAssigned(i)
        /\ social[i].active
            => brain[i].mode = "socializing"

\* C12: right after a greet scan, social partner references are mutual: a pet
\* with social.active and partner b has a partner b with social.active, partner
\* a and the same until
C12_PartnersMutual ==
    hist.op = "manager" /\ frameCounter = 0
        => \A a \in Pets :
               social[a].active
                   => LET b == social[a].partnerId
                      IN  /\ b \in Pets
                          /\ social[b].active
                          /\ social[b].partnerId = a
                          /\ social[b].until = social[a].until

\* C13: a manager frame never changes the social state of a pet that is the
\* chaser or the runner of the episode active after the frame's chase step (an
\* episode started in this very frame included), and never writes the cooldown
\* entry of a pair that contains such a pet
C13_ScanSkipsChase ==
    [][phase = 0 /\ phase' = 1
         => \A i \in Pets :
                ChaseAssigned(i)'
                    => /\ social'[i] = social[i]
                       /\ \A pr \in Pairs :
                              (pr[1] = i \/ pr[2] = i) => pairCooldown'[pr] = pairCooldown[pr]]_vars

\* a scan has just greeted a pair while an episode that began in the same frame
\* kept a pet out of it: the pet stands within greet distance of a greeted pet,
\* its pairs are off cooldown, and its social state is untouched
C13_Witness ==
    /\ hist.op = "manager" /\ frameCounter = 0 /\ hist.started
    /\ hist.greeted # {}
    /\ \E i, j \in Pets :
           /\ i # j /\ ChaseAssigned(i) /\ ~ChaseAssigned(j)
           /\ Dist2(posMapRef[i], posMapRef[j]) < SOCIAL_DISTANCE * SOCIAL_DISTANCE
           /\ pairCooldown[PairKey(i, j)] <= time
           /\ social[j].active /\ ~social[i].active

\* the pet called k-th in a frame
Called(k) == left.order[k]

\* C14: in whatever order the pets' frame callbacks are called, the position a
\* pet commits in a frame is the one computed from its own refs at the start of
\* the frame, the manager's snapshot, the chase record and its own draws: no
\* pet's result depends on which other pets were updated before it
C14_OrderIndependent ==
    \A k \in Pets :
        (phase = 0 /\ hist.op = "pet") \/ (phase \in Pets /\ k < phase)
            => pos[Called(k)]
                 = FinePetFrame(hist.start[Called(k)], Called(k), time, chaseModeRef,
                                posMapRef, FineInputs(Called(k))).pos

\* a frame has ended in which a wandering pet was pushed away from a pet that
\* had already moved in the same frame (its live position would have given
\* another push than the snapshot), while a chaser ran at a runner that had
\* already moved too
C14_Witness ==
    /\ phase = 0 /\ hist.op = "pet"
    /\ \E k1, k2 \in Pets :
           /\ k1 < k2
           /\ pos[Called(k1)] # V2(posMapRef[Called(k1)].x, posMapRef[Called(k1)].z)
           /\ pos[Called(k2)] # V2(posMapRef[Called(k2)].x, posMapRef[Called(k2)].z)
           /\ hist.start[Called(k2)].brain.mode = "wandering"
           /\ ~ChaseAssigned(Called(k2))
           /\ FineSep(Pets, Called(k2), hist.start[Called(k2)].pos, posMapRef)
                # FineSep_live(Pets, Called(k2), hist.start[Called(k2)].pos, posMapRef)
    /\ \E k1, k2 \in Pets :
           /\ k1 < k2
           /\ chaseModeRef.active
           /\ Called(k2) = chaseModeRef.chaserId /\ Called(k1) = chaseModeRef.runnerId
           /\ brain[Called(k2)].mode = "chasing" /\ brain[Called(k1)].mode = "running"
           /\ pos[Called(k1)] # chaseModeRef.runnerPos
           /\ vel[Called(k2)] # V2(0, 0)

\* the shortest angular distance between two yaws, in angle units
AngDist(a, b) == Min2((a - b) % (2 * HalfTurn), (2 * HalfTurn) - ((a - b) % (2 * HalfTurn)))

\* C15: for a yaw a, a target b in (-pi, pi] other than a modulo a full turn and
\* a factor t in (0, 1), dampAngle(a, b, t) is strictly closer to b in shortest
\* angular distance than a is, also across the +/-pi seam
C15_DampAngleCloser ==
    hist.op = "dampAngle"
        => LET a == hist.args[1]
               b == hist.args[2]
           IN  AngDist(a, b) # 0 => AngDist(yaw[hist.pet], b) < AngDist(a, b)

\* C16: a frame of length dt, in which no pet event falls, changes a pet's love
\* to max(0, love - 0.55 * dt), whatever the pet's mode and also while it is
\* held; love (hundredths here) never rises in a frame and is never negative
C16_LoveDecays ==
    \A i \in Pets :
        hist.op = "pet" /\ hist.pet = i
            => /\ petting[i].love = Max2(0, hist.start[i].petting.love - 55 * dt)
               /\ petting[i].love <= hist.start[i].petting.love
               /\ petting[i].love >= 0

\* a held pet that had been petted three times has just lost 0.55 of its love
\* in a frame of one second, and has love left
C16_Witness ==
    \E i \in Pets :
        /\ hist.op = "pet" /\ hist.pet = i /\ heldRef[i] /\ brain[i].mode = "held"
        /\ dt = 1
        /\ hist.start[i].petting.love = 66
        /\ petting[i].love = 11

\* C17: a pointer move registers a pet event (love raised, reversal count back
\* to zero, lastInteractAt set) exactly when it is the third reversal counted
\* over a pet that is not held and the three reversals fall within a short
\* window; the event raises love by one increment of 0.22, to at most 1
C17_PetEvent ==
    hist.op = "petMove"
        => LET i     == hist.pet
               P     == hist.before
               third == /\ ~P.held
                        /\ petting[i].flips # P.petting.flips
                        /\ Len(hist.flipAt) = 3
               within == hist.flipAt[3] - hist.flipAt[1] <= ShortWindowS
               registered == \/ petting[i].love # P.petting.love
                             \/ brain[i].lastInteractAt # P.brain.lastInteractAt
                             \/ petting[i].flips = 0 /\ P.petting.flips # 0
           IN  /\ registered <=> (third /\ within)
               /\ registered
                    => /\ petting[i].love = Min2(100, P.petting.love + 22)
                       /\ petting[i].flips = 0
                       /\ brain[i].lastInteractAt = PerfNow(time)

\* C18: there is one chase episode at most: a chaser and a runner are drawn
\* only by a manager frame that finds no episode active; while the episode stays
\* active its chaser, runner and until do not change; and the first manager
\* frame whose clock is past until clears it, no earlier frame does
C18_OneEpisode ==
    [][/\ chaseModeRef'.active /\ ~chaseModeRef.active => phase = 0 /\ phase' = 1
       /\ chaseModeRef.active
            => /\ chaseModeRef'.active
                    => /\ chaseModeRef'.chaserId = chaseModeRef.chaserId
                       /\ chaseModeRef'.runnerId = chaseModeRef.runnerId
                       /\ chaseModeRef'.until = chaseModeRef.until
               /\ phase = 0 /\ phase' = 1
                    => (chaseModeRef'.active <=> ~(time' > chaseModeRef.until))
               /\ ~(phase = 0 /\ phase' = 1) => chaseModeRef' = chaseModeRef]_vars

\* the manager has just cleared the one episode of the run, in the first frame
\* past its until, and the chaser has had a frame as chaser
C18_Witness ==
    /\ hist.op = "manager" /\ ~chaseModeRef.active /\ left.chases = 0
    /\ chaseModeRef.chaserId = NoPet /\ chaseModeRef.runnerId = NoPet
    /\ time > chaseModeRef.until
    /\ time - dt <= chaseModeRef.until
    /\ \E i \in Pets : hist.start[i].brain.mode = "chasing"

\* C19: with an empty rest-spot list, (a) a resting or sleeping pet is not
\* steered toward any target by calculateMovement: neither component of its
\* velocity grows, it only decelerates; and (b) an update that starts in resting
\* or sleeping with the timer run out, for a pet that is not held, chase-assigned
\* or social, ends in wandering
C19_NoRestSpots ==
    Len(CoreRugs) = 0
        => /\ hist.op = "calculateMovement" /\ brain[hist.pet].mode \in {"resting", "sleeping"}
                => /\ Abs(vel[hist.pet].x) <= Abs(hist.before.vel.x)
                   /\ Abs(vel[hist.pet].z) <= Abs(hist.before.vel.z)
           /\ hist.op = "updateBrain" /\ hist.pre.mode \in {"resting", "sleeping"}
              /\ ~hist.args.isHeld /\ ~hist.args.socialActive /\ ~hist.args.chaseMode.active
              /\ brain[hist.pet].t <= 0
                => brain[hist.pet].mode = "wandering"

\* C20: a pet frame moves a pet into sleeping (the idle-sleep rule is the only
\* way a frame update does) only if the pet is not held, is not the chaser or
\* runner of the active episode, has social.active false, was within squared
\* distance 64 of the camera, and more than 22 s have passed since lastInteractAt
C20_IdleSleepGuards ==
    \A i \in Pets :
        hist.op = "pet" /\ hist.pet = i
        /\ brain[i].mode = "sleeping" /\ hist.start[i].brain.mode # "sleeping"
            => /\ ~heldRef[i]
               /\ ~ChaseAssigned(i)
               /\ ~social[i].active
               /\ Dist2(camera, V2(posMapRef[i].x, posMapRef[i].z)) <= NearbyDist2
               /\ PerfNow(time) - hist.start[i].brain.lastInteractAt > sleepAfterNoInteractS

RugSpots == {V2(rugs[k][1], rugs[k][2]) : k \in 1..Len(rugs)}

C22_ReleaseClearsHeld ==
    \A i \in Pets :
        hist.op = "dragEnd" /\ hist.pet = i
            => /\ ~heldRef[i]
               /\ brain[i].mode = IF social[i].active THEN "socializing" ELSE "wandering"

\* C23: a callback registered with once() is called at most once, whatever
\* the callbacks do and however often the event is emitted
C23_OnceAtMostOnce ==
    \A w \in 1..Len(emitter.wrappers) : emitter.calls[w] <= 1

\* C24: no roster ever holds more than maxPets pets, pending updates counted
\* in; and an addPet of the hook that is called when the roster already holds
\* maxPets pets returns null and adds nothing
C24_RosterBounded ==
    /\ \A c \in {"hook", "manager"} :
          /\ Len(roster[c].pets) <= MaxPets
          /\ Len(ApplyQueue(roster[c].pets, roster[c].queue)) <= MaxPets
    /\ hist.op = "addPet" /\ hist.args.held >= MaxPets
          => /\ hist.args.returned = NoPet
             /\ Len(ApplyQueue(roster.hook.pets, roster.hook.queue)) = hist.args.held

\* C25: once a fresh or reset gacha manager has made three pulls, one of the
\* first three was rare or legendary and hasReceivedFirstRare is true
C25_FirstRareGuarantee ==
    Len(gacha.pullHistory) >= guaranteeRareWithinFirst
        => /\ \E k \in 1..guaranteeRareWithinFirst : gacha.pullHistory[k].rarity # "common"
           /\ gacha.hasReceivedFirstRare

\* after a reset, two common pulls and then the guarantee pull
C25_Witness ==
    /\ Len(gacha.pullHistory) = guaranteeRareWithinFirst
    /\ gacha.pullCount = guaranteeRareWithinFirst
    /\ left.frames = 0
    /\ \A k \in 1..(guaranteeRareWithinFirst - 1) : gacha.pullHistory[k].rarity = "common"
    /\ gacha.pullHistory[guaranteeRareWithinFirst].isGuaranteed
    /\ gacha.pullHistory[guaranteeRareWithinFirst].rarity # "common"

\* C26: an updateBrain call for a pet that is not held and is neither the
\* chaser nor the runner of an active episode leaves the brain as some call
\* with the same arguments and no episode would
C26_BystanderUnaffected ==
    \A i \in Pets :
        hist.op = "updateBrain" /\ hist.pet = i
        /\ hist.args.chaseMode.active /\ ~hist.args.isHeld
        /\ hist.args.chaseMode.chaserId # i /\ hist.args.chaseMode.runnerId # i
            => \E in \in CoreDraws :
                  brain[i] = updateBrain(hist.pre, [hist.args EXCEPT !.chaseMode = createChaseMode],
                                         in)

\* C27: walkS is the time wandered without a break: (a) a pet that is put
\* down into wandering has walkS 0; (b) a pet frame that ends in wandering and
\* did not start in it leaves walkS at no more than the frame's dt; (c) a pet
\* frame raises walkS only for a pet that starts or ends the frame in wandering
C27_WalkAccumulator ==
    \A i \in Pets :
        /\ hist.op = "dragEnd" /\ hist.pet = i /\ brain[i].mode = "wandering"
              => brain[i].walkS = 0
        /\ hist.op = "pet" /\ hist.pet = i /\ brain[i].mode = "wandering"
           /\ hist.start[i].brain.mode # "wandering"
              => brain[i].walkS <= dt
        /\ hist.op = "pet" /\ hist.pet = i /\ brain[i].walkS > hist.start[i].brain.walkS
              => hist.start[i].brain.mode = "wandering" \/ brain[i].mode = "wandering"

\* C28: a maybeStartChase call makes at most 6 re-draws; if it returns true
\* no episode was active before, one is active now with a chaser and a
\* different runner out of the array and an end 3.8 to 5.2 s ahead (in whole
\* seconds); if it returns false the chase state is as it was
C28_MaybeStartChase ==
    hist.op = "maybeStartChase"
        => /\ hist.args.redraws <= GuardMax
           /\ hist.args.returned
                 => /\ ~hist.before.active /\ chaseModeRef.active
                    /\ chaseModeRef.chaserId \in 1..hist.args.pets
                    /\ chaseModeRef.runnerId \in 1..hist.args.pets
                    /\ chaseModeRef.chaserId # chaseModeRef.runnerId
                    /\ chaseModeRef.until \in (time + FloorS(3800))..(time + FloorS(5200))
           /\ ~hist.args.returned => chaseModeRef = hist.before

\* a chase that starts on the sixth re-draw, after an earlier episode ended
C28_Witness ==
    /\ hist.op = "maybeStartChase" /\ hist.args.returned
    /\ hist.args.redraws = GuardMax
    /\ time > 0

\* the pet frame of pet i is the first one after its greet has run out
GreetRunsOut(i) ==
    /\ hist.op = "pet" /\ hist.pet = i
    /\ hist.start[i].social.active /\ time > hist.start[i].social.until

C29_WitnessHeld ==
    \E i \in Pets : GreetRunsOut(i) /\ heldRef[i] /\ ~social[i].active

\* C30: guardian assignment is a consistent one-to-one relation: pet p has
\* an assignment to memory m exactly if memory m exists with guardianPetId p
C30_GuardiansConsistent ==
    \A i \in Pets, m \in MemoryIds :
        (i \in DOMAIN registry.assignments /\ registry.assignments[i].memoryId = m)
            <=> (m \in DOMAIN registry.memories /\ registry.memories[m] = i)

====
